---- MODULE Spec2Model ----
(***************************************************************************)
(* A model of Practice/transformer_in_pytorch.ipynb: the greedy decoding   *)
(* loop, the causal mask, the BilingualDataset item construction, the      *)
(* construction and the shape algebra of MultiHeadAttentionBlock, the      *)
(* masked softmax of the attention weights and the shapes of               *)
(* encode / decode / project.                                              *)
(*                                                                         *)
(* Tensors are modelled by what the code reads of them: integer token      *)
(* sequences, 0/1 or boolean masks, shapes (tuples of sizes) and, for the  *)
(* softmax, fixed-point numerators over a common denominator.              *)
(***************************************************************************)
EXTENDS Integers, Sequences, FiniteSets, TLC

(***************************************************************************)
(* Bounds of the model.                                                    *)
(***************************************************************************)
\* greedy_decode is explored for max_len in 1..MaxLen
MaxLen == 4
\* token ids are 0..MaxTokenId (the four special tokens and the words)
MaxTokenId == 4
\* BilingualDataset is explored for seq_len in 1..MaxSeqLen
MaxSeqLen == 5
\* and for sentences of 0..MaxTokens tokens
MaxTokens == 3
\* MultiHeadAttentionBlock is explored for d_model in 1..MaxDModel, h in 1..MaxHeads,
MaxDModel == 6
MaxHeads == 3
\* batches of 1..MaxBatch sequences of 1..MaxPositions positions
MaxBatch == 2
MaxPositions == 3
\* attention scores are 0..MaxScore
MaxScore == 2
\* transformers are built with 1..MaxLayers encoder and decoder blocks
MaxLayers == 2
\* config['num_epochs'] is in 1..MaxEpochs
MaxEpochs == 2
\* an epoch has 1..MaxBatches training batches
MaxBatches == 2
\* train_model is started up to MaxRuns times on the same model folder
MaxRuns == 2
\* config['seq_len'], the max_len run_validation passes to greedy_decode
ValSeqLen == 2

(***************************************************************************)
(* Special token ids.  WordLevelTrainer(special_tokens = ["[UNK]", "[PAD]",*)
(* "[SOS]", "[EOS]"]) gives the special tokens the ids 0, 1, 2, 3 in both  *)
(* tokenizers; token_to_id reads them back.                                *)
(***************************************************************************)
pad_token == 1
sos_token == 2
eos_token == 3

sos_idx == sos_token
eos_idx == eos_token

TokenIds == 0..MaxTokenId

VARIABLES
    \* ---- greedy_decode ----
    gpc,             \* position in greedy_decode
    max_len,         \* its max_len argument
    source,          \* its source argument (encoder input ids)
    source_mask,     \* its source_mask argument
    encoder_output,  \* model.encode's result
    decoder_input,   \* the decoder input built so far
    causal,          \* casual_mask's result in the current iteration (boolean)
    decoder_mask,    \* the mask of the current iteration, in source_mask's type
    out,             \* model.decode's result
    prob,            \* model.project's result
    next_word,       \* the arg-max token of the current iteration
    exit_via,        \* which break left the loop
    calls,           \* the calls made on the model and on casual_mask, in order
    result,          \* the returned sequence
    \* ---- BilingualDataset.__getitem__ ----
    dpc,                     \* position in __getitem__
    seq_len,                 \* self.seq_len
    enc_input_tokens,        \* tokenizer_src.encode(src_text).ids
    dec_input_tokens,        \* tokenizer_tgt.encode(tgt_text).ids
    enc_num_padding_tokens,
    dec_num_padding_tokens,
    item,                    \* the returned dictionary
    \* ---- MultiHeadAttentionBlock ----
    mpc,             \* position: __init__, constructed, forward done
    d_model,         \* self.d_model
    h,               \* self.h
    d_k,             \* self.d_k
    q_shape,         \* the shape of forward's q
    k_shape,         \* the shape of forward's k and v
    mask_shape,      \* the shape of forward's mask
    fwd_shape,       \* the shape forward returns
    \* ---- MultiHeadAttentionBlock.attention, one query row ----
    apc,               \* position in attention
    attention_scores,  \* the row of attention_scores: numerators and their denominator
    mask,              \* the row of the mask (0 hides a key), <<>> when mask is None
    dropout,           \* the dropout argument: None, or the module in eval or train mode
    \* ---- build_transformer, Transformer.encode / decode / project ----
    tpc,             \* position: build, encode, decode, project
    transformer,     \* build_transformer's arguments, and d_k once it is built
    t_src,           \* the shape of the source ids
    t_src_mask,      \* the shape of the source mask
    t_tgt,           \* the shape of the target ids
    t_tgt_mask,      \* the shape of the target mask
    t_enc,           \* the shape encode returns
    t_dec,           \* the shape decode returns
    t_proj,          \* the shape project returns
    t_row,           \* one row of project's result: log(num[j] / den) at vocabulary entry j
    \* ---- PositionalEncoding.__init__ and forward ----
    ppc,               \* position: construct, again, forward
    pe_d_model,        \* the d_model argument
    pe_seq_len,        \* the seq_len argument
    pe,                \* the table of the first construction, a sequence of rows
    pe_again,          \* the table of a second construction with the same arguments
    pe_slice,          \* pe[:, :x.shape[1], :], the rows forward adds to x
    \* ---- ResidualConnection.forward ----
    rpc,               \* position: norm, sublayer, dropout, add
    r_x,               \* the input x
    r_sublayer,        \* the sublayer argument, by what it does to a shape
    r_mode,            \* the module's mode, train or eval
    r_normed,          \* self.norm(x)
    r_sub,             \* sublayer(self.norm(x))
    r_dropped,         \* self.dropout(...)
    r_out,             \* the sum returned
    r_calls,           \* the arguments sublayer was called with, in order
    \* ---- train_model and run_validation ----
    npc,               \* position in train_model and run_validation
    run,               \* how many times train_model has been started
    config,            \* the config dictionary: preload (-1 for None), num_epochs, seq_len
    train_dataloader,  \* the number of training batches of an epoch
    val_dataloader,    \* the number of validation batches
    weights,           \* the checkpoint files of the model folder, by epoch
    saves,             \* the torch.save calls of this run of train_model, in order
    parameters,        \* the model's parameters: their initialisation and the gradients applied since
    optimizer_state,   \* the optimizer's state: the gradients it has stepped on
    grads,             \* the parameters' .grad: the batches whose loss gradients are summed in it
    global_step,       \* global_step
    initial_epoch,     \* initial_epoch
    epoch,             \* the epoch loop's variable, -1 before the loop
    batch,             \* the number of the batch in its epoch, from 1
    trace,             \* the operations performed on the current batch, in order
    mode,              \* the module's mode, train or eval
    val_batch,         \* the number of the validation batch, from 1
    count,             \* run_validation's count
    encoder_input,     \* the validation batch's encoder_input
    encoder_mask,      \* the validation batch's encoder_mask
    \* ---- Decoder.forward and DecoderBlock.forward ----
    cpc,               \* position in Decoder.forward and DecoderBlock.forward
    decoder,           \* the dimensions of the decoder's blocks and their number N
    layer,             \* the number of the block being applied, from 1
    dec_x,             \* x, the decoder state
    dec_encoder_output, \* the encoder_output argument
    dec_src_mask,      \* the src_mask argument, a shape
    dec_tgt_mask,      \* the tgt_mask argument, a shape
    dec_calls,         \* the blocks called so far with what they were passed, in order
    dec_result         \* what forward returns

gvars == <<gpc, max_len, source, source_mask, encoder_output, decoder_input,
           causal, decoder_mask, out, prob, next_word, exit_via, calls, result>>

dvars == <<dpc, seq_len, enc_input_tokens, dec_input_tokens, enc_num_padding_tokens,
           dec_num_padding_tokens, item>>

mvars == <<mpc, d_model, h, d_k, q_shape, k_shape, mask_shape, fwd_shape>>

avars == <<apc, attention_scores, mask, dropout>>

tvars == <<tpc, transformer, t_src, t_src_mask, t_tgt, t_tgt_mask, t_enc, t_dec,
           t_proj, t_row>>

pvars == <<ppc, pe_d_model, pe_seq_len, pe, pe_again, pe_slice>>

rvars == <<rpc, r_x, r_sublayer, r_mode, r_normed, r_sub, r_dropped, r_out, r_calls>>

\* train_model's inputs and the files, its loop variables, the model and optimizer,
\* and run_validation's variables
inputv == <<run, config, train_dataloader, val_dataloader>>
loopv == <<initial_epoch, epoch, batch>>
modelv == <<parameters, optimizer_state, grads, global_step>>
valv == <<val_batch, count, encoder_input, encoder_mask>>
nvars == <<npc, inputv, weights, saves, loopv, modelv, valv, trace, mode>>

cvars == <<cpc, decoder, layer, dec_x, dec_encoder_output, dec_src_mask, dec_tgt_mask, dec_calls, dec_result>>

vars == <<gvars, dvars, mvars, avars, tvars, pvars, rvars, nvars, cvars>>

\* the values of variables not yet assigned
NoTensor == <<>>
NoEncoding == [src |-> <<>>, mask |-> <<>>]
NoState == [pos |-> 0, enc |-> NoEncoding, tgt |-> <<>>]
NoWord == -1
\* a tensor is followed by its shape and the operations that made it from x
NoValue == [shape |-> <<>>, ops |-> <<>>]
NoSum == [shape |-> <<>>, terms |-> <<>>]
NoParameters == [init |-> 0, updates |-> <<>>]
NoCheckpoint == [epoch |-> -1, model_state_dict |-> NoParameters,
                 optimizer_state_dict |-> <<>>, global_step |-> 0]
NoWeights == [e \in 0..(MaxEpochs - 1) |-> NoCheckpoint]
NoConfig == [preload |-> -1, num_epochs |-> 0, seq_len |-> 0]
NoItem == [encoder_input |-> <<>>, decoder_input |-> <<>>, encoder_mask |-> <<>>,
           decoder_mask |-> <<>>, label |-> <<>>]

(***************************************************************************)
(* Tensor helpers.  A (1, n, m) tensor is <<rows>>, rows a sequence of n   *)
(* sequences of length m; index (i, j) of the code is [1][i+1][j+1].       *)
(***************************************************************************)
\* torch.ones(1, n, m)
ones(n, m) == << [i \in 1..n |-> [j \in 1..m |-> 1]] >>

\* torch.triu(t, diagonal = d): keeps the entries with j - i >= d, zeroes the rest
triu_above(t, d) ==
    [b \in 1..Len(t) |->
        [i \in 1..Len(t[b]) |->
            [j \in 1..Len(t[b][i]) |-> IF j - i > d THEN t[b][i][j] ELSE 0]]]
triu(t, d) ==
    [b \in 1..Len(t) |->
        [i \in 1..Len(t[b]) |->
            [j \in 1..Len(t[b][i]) |-> IF j - i >= d THEN t[b][i][j] ELSE 0]]]

\* tensor == 0, elementwise
EqZero(t) ==
    [b \in 1..Len(t) |->
        [i \in 1..Len(t[b]) |-> [j \in 1..Len(t[b][i]) |-> t[b][i][j] = 0]]]

\* casual_mask(size): (triu(ones(1, size, size), diagonal = 1).type(int)) == 0
casual_mask(size) == EqZero(triu(ones(size, size), 1))

\* bool tensor .type_as(int tensor): True -> 1, False -> 0
type_as_int(t) ==
    [b \in 1..Len(t) |->
        [i \in 1..Len(t[b]) |->
            [j \in 1..Len(t[b][i]) |-> IF t[b][i][j] THEN 1 ELSE 0]]]

\* (ids != pad_token).unsqueeze(0).unsqueeze(0).int(): a (1, 1, L) 0/1 mask
pad_mask_eos(ids) == << << [j \in 1..Len(ids) |-> IF ids[j] # eos_token THEN 1 ELSE 0] >> >>
pad_mask(ids) == << << [j \in 1..Len(ids) |-> IF ids[j] # pad_token THEN 1 ELSE 0] >> >>

(***************************************************************************)
(* The parts of the program a specification does not run stay as they are. *)
(***************************************************************************)
GreedyIdle ==
    /\ gpc = "idle"
    /\ max_len = 0
    /\ source = NoTensor
    /\ source_mask = NoTensor
    /\ encoder_output = NoEncoding
    /\ decoder_input = NoTensor
    /\ causal = NoTensor
    /\ decoder_mask = NoTensor
    /\ out = NoTensor
    /\ prob = NoState
    /\ next_word = NoWord
    /\ exit_via = "none"
    /\ calls = <<>>
    /\ result = NoTensor

DatasetIdle ==
    /\ dpc = "idle"
    /\ seq_len = 0
    /\ enc_input_tokens = <<>>
    /\ dec_input_tokens = <<>>
    /\ enc_num_padding_tokens = 0
    /\ dec_num_padding_tokens = 0
    /\ item = NoItem

MHAIdle ==
    /\ mpc = "idle"
    /\ d_model = 0
    /\ h = 0
    /\ d_k = 0
    /\ q_shape = <<>>
    /\ k_shape = <<>>
    /\ mask_shape = <<>>
    /\ fwd_shape = <<>>

AttentionIdle ==
    /\ apc = "idle"
    /\ attention_scores = [num |-> <<>>, den |-> 1]
    /\ mask = <<>>
    /\ dropout = "None"

NoTransformer == [src_vocab_size |-> 0, tgt_vocab_size |-> 0, src_seq_len |-> 0,
                  tgt_seq_len |-> 0, d_model |-> 0, N |-> 0, h |-> 0, d_ff |-> 0,
                  d_k |-> 0]

TransformerIdle ==
    /\ tpc = "idle"
    /\ transformer = NoTransformer
    /\ t_src = <<>>
    /\ t_src_mask = <<>>
    /\ t_tgt = <<>>
    /\ t_tgt_mask = <<>>
    /\ t_enc = <<>>
    /\ t_dec = <<>>
    /\ t_proj = <<>>
    /\ t_row = [num |-> <<>>, den |-> 1]

PositionalIdle ==
    /\ ppc = "idle"
    /\ pe_d_model = 0
    /\ pe_seq_len = 0
    /\ pe = <<>>
    /\ pe_again = <<>>
    /\ pe_slice = <<>>

ResidualIdle ==
    /\ rpc = "idle"
    /\ r_x = NoValue
    /\ r_sublayer = "none"
    /\ r_mode = "none"
    /\ r_normed = NoValue
    /\ r_sub = NoValue
    /\ r_dropped = NoValue
    /\ r_out = NoSum
    /\ r_calls = <<>>

TrainIdle ==
    /\ npc = "idle"
    /\ run = 0
    /\ config = NoConfig
    /\ train_dataloader = 0
    /\ val_dataloader = 0
    /\ weights = NoWeights
    /\ saves = <<>>
    /\ parameters = NoParameters
    /\ optimizer_state = <<>>
    /\ grads = <<>>
    /\ global_step = 0
    /\ initial_epoch = 0
    /\ epoch = -1
    /\ batch = 0
    /\ trace = <<>>
    /\ mode = "train"
    /\ val_batch = 0
    /\ count = 0
    /\ encoder_input = NoTensor
    /\ encoder_mask = NoTensor

DecoderIdle ==
    /\ cpc = "idle"
    /\ decoder = NoTransformer
    /\ layer = 0
    /\ dec_x = NoValue
    /\ dec_encoder_output = NoValue
    /\ dec_src_mask = <<>>
    /\ dec_tgt_mask = <<>>
    /\ dec_calls = <<>>
    /\ dec_result = NoValue

nongreedy == <<dvars, mvars, avars, tvars, pvars, rvars, nvars, cvars>>
nondataset == <<gvars, mvars, avars, tvars, pvars, rvars, nvars, cvars>>
nonmha == <<gvars, dvars, avars, tvars, pvars, rvars, nvars, cvars>>
nonattention == <<gvars, dvars, mvars, tvars, pvars, rvars, nvars, cvars>>
nontransformer == <<gvars, dvars, mvars, avars, pvars, rvars, nvars, cvars>>
nonpositional == <<gvars, dvars, mvars, avars, tvars, rvars, nvars, cvars>>
nonresidual == <<gvars, dvars, mvars, avars, tvars, pvars, nvars, cvars>>
nontrain == <<gvars, dvars, mvars, avars, tvars, pvars, rvars, cvars>>
nondecoder == <<gvars, dvars, mvars, avars, tvars, pvars, rvars, nvars>>
nontrainandgreedy == <<dvars, mvars, avars, tvars, pvars, rvars, cvars>>

(***************************************************************************)
(* greedy_decode(model, source, source_mask, ..., max_len, device)         *)
(***************************************************************************)
\* the sources the decoder is run on: one unpadded and one padded sentence
Sources == { <<sos_token, 4, eos_token>>, <<sos_token, 4, eos_token, pad_token>> }

\* model.encode(source, source_mask): a value fixed by its arguments
Encode(src, src_mask) == [src |-> src, mask |-> src_mask]

\* model.decode(encoder_output, source_mask, tgt, tgt_mask): one state per target
\* position, each fixed by the arguments
Decode(enc, src_mask, tgt, tgt_mask) ==
    [p \in 1..Len(tgt) |-> [pos |-> p, enc |-> enc, tgt |-> SubSeq(tgt, 1, p)]]

\* out[:, -1]: the last position only
LastPosition(o) == o[Len(o)]

\* the loop's first test: if decoder_input.size(1) == max_len: break
ReachedMaxLenOff(size, ml) == size = ml + 1
ReachedMaxLen(size, ml) == size = ml

\* the loop's last test: if next_word == eos_idx: break
IsEosNever(w) == FALSE
IsEos(w) == w = eos_idx

\* torch.cat([decoder_input, [[next_word]]], dim = 1)
Cat(d, w) == Append(d, w)

\* the size the causal mask is built with: decoder_input.size(1)
MaskSizeOff(d) == Len(d) + 1
MaskSize(d) == Len(d)

GreedyStart ==
    /\ gpc = "encode"
    /\ max_len \in 1..MaxLen
    /\ source \in Sources
    /\ source_mask = pad_mask(source)
    /\ encoder_output = NoEncoding
    /\ decoder_input = NoTensor
    /\ causal = NoTensor
    /\ decoder_mask = NoTensor
    /\ out = NoTensor
    /\ prob = NoState
    /\ next_word = NoWord
    /\ exit_via = "none"
    /\ calls = <<>>
    /\ result = NoTensor

\* encoder_output = model.encode(source, source_mask)
GD_Encode ==
    /\ gpc = "encode"
    /\ encoder_output' = Encode(source, source_mask)
    /\ calls' = Append(calls, <<"encode", source, source_mask,
                                Encode(source, source_mask)>>)
    /\ gpc' = "init"
    /\ UNCHANGED <<max_len, source, source_mask, decoder_input, causal, decoder_mask, out,
                   prob, next_word, exit_via, result>>
    /\ UNCHANGED nongreedy

\* decoder_input = torch.empty(1, 1).fill_(sos_idx)
GD_Init ==
    /\ gpc = "init"
    /\ decoder_input' = <<sos_idx>>
    /\ gpc' = "while"
    /\ UNCHANGED <<max_len, source, source_mask, encoder_output, causal, decoder_mask, out,
                   prob, next_word, exit_via, calls, result>>
    /\ UNCHANGED nongreedy

\* while True: if decoder_input.size(1) == max_len: break
GD_While ==
    /\ gpc = "while"
    /\ IF ReachedMaxLen(Len(decoder_input), max_len)
         THEN /\ exit_via' = "max_len"
              /\ gpc' = "return"
         ELSE /\ exit_via' = exit_via
              /\ gpc' = "casual_mask"
    /\ UNCHANGED <<max_len, source, source_mask, encoder_output, decoder_input,
                   causal, decoder_mask, out, prob, next_word, calls, result>>
    /\ UNCHANGED nongreedy

\* casual_mask(decoder_input.size(1))
GD_CasualMask ==
    /\ gpc = "casual_mask"
    /\ causal' = casual_mask(MaskSize(decoder_input))
    /\ calls' = Append(calls, <<"casual_mask", MaskSize(decoder_input)>>)
    /\ gpc' = "type_as"
    /\ UNCHANGED <<max_len, source, source_mask, encoder_output, decoder_input,
                   decoder_mask, out, prob, next_word, exit_via, result>>
    /\ UNCHANGED nongreedy

\* decoder_mask = (...).type_as(source_mask).to(device)
GD_TypeAs ==
    /\ gpc = "type_as"
    /\ decoder_mask' = type_as_int(causal)
    /\ gpc' = "decode"
    /\ UNCHANGED <<max_len, source, source_mask, encoder_output, decoder_input,
                   causal, out, prob, next_word, exit_via, calls, result>>
    /\ UNCHANGED nongreedy

\* out = model.decode(encoder_output, source_mask, decoder_input, decoder_mask)
GD_Decode ==
    /\ gpc = "decode"
    /\ out' = Decode(encoder_output, source_mask, decoder_input, decoder_mask)
    /\ calls' = Append(calls, <<"decode", encoder_output, source_mask,
                                decoder_input, decoder_mask>>)
    /\ gpc' = "project"
    /\ UNCHANGED <<max_len, source, source_mask, encoder_output, decoder_input,
                   causal, decoder_mask, prob, next_word, exit_via, result>>
    /\ UNCHANGED nongreedy

\* prob = model.project(out[:, -1])
GD_Project ==
    /\ gpc = "project"
    /\ prob' = LastPosition(out)
    /\ calls' = Append(calls, <<"project", LastPosition(out).pos, Len(out)>>)
    /\ gpc' = "max"
    /\ UNCHANGED <<max_len, source, source_mask, encoder_output, decoder_input,
                   causal, decoder_mask, out, next_word, exit_via, result>>
    /\ UNCHANGED nongreedy

\* _, next_word = torch.max(prob, dim = 1): whichever token the model scores highest
GD_Max ==
    /\ gpc = "max"
    /\ \E w \in TokenIds : next_word' = w
    /\ gpc' = "cat"
    /\ UNCHANGED <<max_len, source, source_mask, encoder_output, decoder_input,
                   causal, decoder_mask, out, prob, exit_via, calls, result>>
    /\ UNCHANGED nongreedy

\* decoder_input = torch.cat([decoder_input, [[next_word.item()]]], dim = 1)
GD_Cat ==
    /\ gpc = "cat"
    /\ decoder_input' = Cat(decoder_input, next_word)
    /\ calls' = Append(calls, <<"append", next_word>>)
    /\ gpc' = "eos"
    /\ UNCHANGED <<max_len, source, source_mask, encoder_output, causal, decoder_mask, out,
                   prob, next_word, exit_via, result>>
    /\ UNCHANGED nongreedy

\* if next_word == eos_idx: break
GD_Eos ==
    /\ gpc = "eos"
    /\ IF IsEos(next_word)
         THEN /\ exit_via' = "eos"
              /\ gpc' = "return"
         ELSE /\ exit_via' = exit_via
              /\ gpc' = "while"
    /\ UNCHANGED <<max_len, source, source_mask, encoder_output, decoder_input,
                   causal, decoder_mask, out, prob, next_word, calls, result>>
    /\ UNCHANGED nongreedy

\* return decoder_input.squeeze(0)
GD_Return ==
    /\ gpc = "return"
    /\ result' = decoder_input
    /\ gpc' = "done"
    /\ UNCHANGED <<max_len, source, source_mask, encoder_output, decoder_input,
                   causal, decoder_mask, out, prob, next_word, exit_via, calls>>
    /\ UNCHANGED nongreedy

GreedyNext ==
    \/ GD_Encode
    \/ GD_Init
    \/ GD_While
    \/ GD_CasualMask
    \/ GD_TypeAs
    \/ GD_Decode
    \/ GD_Project
    \/ GD_Max
    \/ GD_Cat
    \/ GD_Eos
    \/ GD_Return

GreedyInit ==
    /\ GreedyStart
    /\ DatasetIdle /\ MHAIdle /\ AttentionIdle /\ TransformerIdle
    /\ PositionalIdle /\ ResidualIdle /\ TrainIdle /\ DecoderIdle

GreedySpec == GreedyInit /\ [][GreedyNext]_vars

\* greedy_decode is straight-line sequential code: a step that can be taken is taken
FairGreedySpec == GreedySpec /\ WF_vars(GreedyNext)

(***************************************************************************)
(* BilingualDataset.__getitem__(index)                                     *)
(***************************************************************************)
\* the ids a tokenized sentence is made of here: the pad id, the end id and a word
SentenceTokens == {pad_token, eos_token, MaxTokenId}

RECURSIVE SeqsOfLen(_, _)
SeqsOfLen(S, n) ==
    IF n = 0 THEN { <<>> }
    ELSE { Append(q, x) : q \in SeqsOfLen(S, n - 1), x \in S }

Sentences == UNION { SeqsOfLen(SentenceTokens, n) : n \in 0..MaxTokens }

\* [self.pad_token] * n: n pad ids, none when n <= 0
Pads(n) == [k \in 1..n |-> pad_token]

\* seq_len - len(enc_input_tokens) - 2: [SOS] and [EOS] are added to the source
EncPadding(sl, toks) == sl - Len(toks) - 2

\* seq_len - len(dec_input_tokens) - 1: only [SOS] is added to the decoder input
DecPaddingAsSource(sl, toks) == sl - Len(toks) - 2
DecPadding(sl, toks) == sl - Len(toks) - 1

\* if enc_num_padding_tokens < 0 or dec_num_padding_tokens < 0: raise ValueError
TooLongEncOnly(e, d) == e < 0
TooLong(e, d) == e < 0 \/ d < 0

\* torch.cat([sos_token, enc_input_tokens, eos_token, pads])
EncoderInput(toks, n) == <<sos_token>> \o toks \o <<eos_token>> \o Pads(n)

\* torch.cat([sos_token, dec_input_tokens, pads])
DecoderInputPadFirst(toks, n) == Pads(1) \o toks \o Pads(n)
DecoderInput(toks, n) == <<sos_token>> \o toks \o Pads(n)

\* torch.cat([dec_input_tokens, eos_token, pads])
LabelUnshifted(toks, n) == <<sos_token>> \o toks \o Pads(n)
Label(toks, n) == toks \o <<eos_token>> \o Pads(n)

\* (1, 1, L) 0/1 mask & (1, L, L) boolean mask, broadcast to (1, L, L)
MaskCausalOnly(pm, cm) ==
    << [i \in 1..Len(cm[1]) |->
          [j \in 1..Len(cm[1][i]) |-> IF cm[1][i][j] THEN 1 ELSE 0]] >>
MaskAnd(pm, cm) ==
    << [i \in 1..Len(cm[1]) |->
          [j \in 1..Len(cm[1][i]) |->
              IF pm[1][1][j] = 1 /\ cm[1][i][j] THEN 1 ELSE 0]] >>

DatasetStart ==
    /\ dpc = "tokenize"
    /\ seq_len \in 1..MaxSeqLen
    /\ enc_input_tokens = <<>>
    /\ dec_input_tokens = <<>>
    /\ enc_num_padding_tokens = 0
    /\ dec_num_padding_tokens = 0
    /\ item = NoItem

\* enc_input_tokens = tokenizer_src.encode(src_text).ids, and the same for the target
DS_Tokenize ==
    /\ dpc = "tokenize"
    /\ \E s \in Sentences, t \in Sentences :
          /\ enc_input_tokens' = s
          /\ dec_input_tokens' = t
    /\ dpc' = "padding"
    /\ UNCHANGED <<seq_len, enc_num_padding_tokens, dec_num_padding_tokens, item>>
    /\ UNCHANGED nondataset

\* the two padding counts
DS_Padding ==
    /\ dpc = "padding"
    /\ enc_num_padding_tokens' = EncPadding(seq_len, enc_input_tokens)
    /\ dec_num_padding_tokens' = DecPadding(seq_len, dec_input_tokens)
    /\ dpc' = "check"
    /\ UNCHANGED <<seq_len, enc_input_tokens, dec_input_tokens, item>>
    /\ UNCHANGED nondataset

\* raise ValueError: nothing is returned
DS_Raise ==
    /\ dpc = "check"
    /\ TooLong(enc_num_padding_tokens, dec_num_padding_tokens)
    /\ dpc' = "ValueError"
    /\ UNCHANGED <<seq_len, enc_input_tokens, dec_input_tokens, enc_num_padding_tokens,
                   dec_num_padding_tokens, item>>
    /\ UNCHANGED nondataset

\* the three tensors, the three length assertions and the returned dictionary
DS_Return ==
    /\ dpc = "check"
    /\ ~TooLong(enc_num_padding_tokens, dec_num_padding_tokens)
    /\ LET encoder_in == EncoderInput(enc_input_tokens, enc_num_padding_tokens)
           decoder_in == DecoderInput(dec_input_tokens, dec_num_padding_tokens)
           label == Label(dec_input_tokens, dec_num_padding_tokens)
       IN  IF /\ Len(encoder_in) = seq_len
              /\ Len(decoder_in) = seq_len
              /\ Len(label) = seq_len
             THEN /\ item' = [encoder_input |-> encoder_in,
                              decoder_input |-> decoder_in,
                              encoder_mask |-> pad_mask(encoder_in),
                              decoder_mask |-> MaskAnd(pad_mask(decoder_in),
                                                       casual_mask(Len(decoder_in))),
                              label |-> label]
                  /\ dpc' = "returned"
             ELSE /\ item' = item
                  /\ dpc' = "AssertionError"
    /\ UNCHANGED <<seq_len, enc_input_tokens, dec_input_tokens, enc_num_padding_tokens,
                   dec_num_padding_tokens>>
    /\ UNCHANGED nondataset

DatasetNext ==
    \/ DS_Tokenize
    \/ DS_Padding
    \/ DS_Raise
    \/ DS_Return

DatasetInit ==
    /\ DatasetStart
    /\ GreedyIdle /\ MHAIdle /\ AttentionIdle /\ TransformerIdle
    /\ PositionalIdle /\ ResidualIdle /\ TrainIdle /\ DecoderIdle

DatasetSpec == DatasetInit /\ [][DatasetNext]_vars

(***************************************************************************)
(* Shapes.  A shape is the tuple of a tensor's sizes; ShapeError is what an *)
(* operation that raises leaves behind.                                    *)
(***************************************************************************)
ShapeError == <<-1>>
IsError(x) == x = ShapeError

RECURSIVE Numel(_)
Numel(x) == IF x = <<>> THEN 1 ELSE x[1] * Numel(Tail(x))

Max2(a, b) == IF a >= b THEN a ELSE b
Min2(a, b) == IF a <= b THEN a ELSE b

\* the size of x at the i-th place from the right, 1 where x has no such place
FromRight(x, i) == IF i <= Len(x) THEN x[Len(x) + 1 - i] ELSE 1

\* broadcasting of two shapes, aligned at the right
Broadcastable(x, y) ==
    \A i \in 1..Max2(Len(x), Len(y)) :
        \/ FromRight(x, i) = FromRight(y, i)
        \/ FromRight(x, i) = 1
        \/ FromRight(y, i) = 1

Broadcast(x, y) ==
    IF IsError(x) \/ IsError(y) \/ ~Broadcastable(x, y) THEN ShapeError
    ELSE LET n == Max2(Len(x), Len(y))
         IN  [i \in 1..n |->
                 LET a == FromRight(x, n + 1 - i)
                     b == FromRight(y, n + 1 - i)
                 IN  IF a = 1 THEN b ELSE a]

\* nn.Linear(fin, fout) applied to x: the last size must be fin
Linear(fin, fout, x) ==
    IF IsError(x) \/ Len(x) = 0 THEN ShapeError
    ELSE IF x[Len(x)] # fin THEN ShapeError
    ELSE [x EXCEPT ![Len(x)] = fout]

\* x.view(shape): the number of elements must be that of x
View(x, shape) ==
    IF IsError(x) \/ Numel(x) # Numel(shape) THEN ShapeError ELSE shape

\* x.view(first, -1, last): the middle size is inferred
ViewInfer(x, first, last) ==
    IF IsError(x) \/ first * last = 0 THEN ShapeError
    ELSE IF Numel(x) % (first * last) # 0 THEN ShapeError
    ELSE <<first, Numel(x) \div (first * last), last>>

\* x.transpose(a, b), a and b counted from 1
Transpose(x, a, b) ==
    IF IsError(x) \/ a > Len(x) \/ b > Len(x) THEN ShapeError
    ELSE [x EXCEPT ![a] = x[b], ![b] = x[a]]

\* x @ y for tensors of the same rank >= 2: batch sizes broadcast, inner sizes agree
MatMul(x, y) ==
    IF IsError(x) \/ IsError(y) \/ Len(x) < 2 \/ Len(x) # Len(y) THEN ShapeError
    ELSE LET n == Len(x)
             bx == SubSeq(x, 1, n - 2)
             by == SubSeq(y, 1, n - 2)
         IN  IF x[n] # y[n - 1] \/ ~Broadcastable(bx, by) THEN ShapeError
             ELSE Broadcast(bx, by) \o <<x[n - 1], y[n]>>

\* x.masked_fill_(mask == 0, value), in place: the mask must broadcast to x's shape
MaskedFillShape(x, msk) ==
    IF IsError(x) THEN ShapeError
    ELSE IF msk = <<>> THEN x
    ELSE IF Broadcast(x, msk) = x THEN x
    ELSE ShapeError

(***************************************************************************)
(* MultiHeadAttentionBlock                                                 *)
(***************************************************************************)
\* assert d_model % h == 0
DivisibleAlways(d, hh) == TRUE
Divisible(d, hh) == d % hh = 0

\* self.d_k = d_model // h
HeadDim(d, hh) == d \div hh

\* MultiHeadAttentionBlock.attention: the shape of the weighted values, and the
\* shape of the attention weights
AttentionShapes(query, key, value, msk) ==
    LET scores == MatMul(query, Transpose(key, Len(key) - 1, Len(key)))
        filled == MaskedFillShape(scores, msk)
    IN  [x |-> MatMul(filled, value), attention_scores |-> filled]

\* the size the heads are concatenated to: self.h * self.d_k
ConcatDimOneHead(hh, dk) == dk
ConcatDim(hh, dk) == hh * dk

\* query.view(batch, length, h, d_k).transpose(1, 2)
SplitHeads(x, hh, dk) ==
    IF IsError(x) \/ Len(x) # 3 THEN ShapeError
    ELSE Transpose(View(x, <<x[1], x[2], hh, dk>>), 2, 3)

\* MultiHeadAttentionBlock.forward(q, k, v, mask) of a block with the given
\* d_model, h and d_k
MHAForward(dm, hh, dk, q, k, v, msk) ==
    LET query == SplitHeads(Linear(dm, dm, q), hh, dk)
        key == SplitHeads(Linear(dm, dm, k), hh, dk)
        value == SplitHeads(Linear(dm, dm, v), hh, dk)
        x == AttentionShapes(query, key, value, msk).x
        y == IF IsError(x) THEN ShapeError
             ELSE ViewInfer(Transpose(x, 2, 3), x[1], ConcatDim(hh, dk))
    IN  Linear(dm, dm, y)

\* the masks the program hands to forward for q of (b, lq, .) and k of (b, lk, .):
\* none, the encoder mask (b, 1, 1, lk), a batched decoder mask (b, 1, lq, lk) and
\* greedy_decode's (1, lq, lk)
MaskShapes(b, lq, lk) == { <<>>, <<b, 1, 1, lk>>, <<b, 1, lq, lk>>, <<1, lq, lk>> }

MHAStart ==
    /\ mpc = "init"
    /\ d_model \in 1..MaxDModel
    /\ h \in 1..MaxHeads
    /\ d_k = 0
    /\ q_shape = <<>>
    /\ k_shape = <<>>
    /\ mask_shape = <<>>
    /\ fwd_shape = <<>>

\* __init__ when the assertion holds
MHA_Construct ==
    /\ mpc = "init"
    /\ Divisible(d_model, h)
    /\ d_k' = HeadDim(d_model, h)
    /\ mpc' = "constructed"
    /\ UNCHANGED <<d_model, h, q_shape, k_shape, mask_shape, fwd_shape>>
    /\ UNCHANGED nonmha

\* __init__ when the assertion fails: AssertionError, no block
MHA_AssertFail ==
    /\ mpc = "init"
    /\ ~Divisible(d_model, h)
    /\ mpc' = "AssertionError"
    /\ UNCHANGED <<d_model, h, d_k, q_shape, k_shape, mask_shape, fwd_shape>>
    /\ UNCHANGED nonmha

\* forward(q, k, v, mask) on a constructed block
MHA_Forward ==
    /\ mpc = "constructed"
    /\ \E b \in 1..MaxBatch, lq \in 1..MaxPositions, lk \in 1..MaxPositions :
          \E m \in MaskShapes(b, lq, lk) :
             /\ q_shape' = <<b, lq, d_model>>
             /\ k_shape' = <<b, lk, d_model>>
             /\ mask_shape' = m
             /\ fwd_shape' = MHAForward(d_model, h, d_k, <<b, lq, d_model>>,
                                        <<b, lk, d_model>>, <<b, lk, d_model>>, m)
    /\ mpc' = "forwarded"
    /\ UNCHANGED <<d_model, h, d_k>>
    /\ UNCHANGED nonmha

MHANext ==
    \/ MHA_Construct
    \/ MHA_AssertFail
    \/ MHA_Forward

MHAInit ==
    /\ MHAStart
    /\ GreedyIdle /\ DatasetIdle /\ AttentionIdle /\ TransformerIdle
    /\ PositionalIdle /\ ResidualIdle /\ TrainIdle /\ DecoderIdle

MHASpec == MHAInit /\ [][MHANext]_vars

(***************************************************************************)
(* MultiHeadAttentionBlock.attention on one query row.  softmax(dim = -1)  *)
(* and the mask act on each query row by itself.  A row of weights is kept *)
(* as integer numerators over one denominator; e^d is kept to three        *)
(* decimals, so that e^d is 0 from d = -8 down, as it is in floating point *)
(* for the filled value -1e9.                                              *)
(***************************************************************************)
\* the value masked_fill_ writes: -1e9
fill_value == -1000000000

\* nn.Dropout(0.1) in train mode scales what it keeps by 1 / (1 - 0.1) = 10 / 9
dropout_scale_num == 10
dropout_scale_den == 9

RECURSIVE SumSeq(_)
SumSeq(x) == IF x = <<>> THEN 0 ELSE x[1] + SumSeq(Tail(x))

RECURSIVE MaxSeq(_)
MaxSeq(x) == IF Len(x) = 1 THEN x[1] ELSE Max2(x[1], MaxSeq(Tail(x)))

\* 1000 * e^d rounded, for d <= 0
ExpFix(d) ==
    CASE d = 0 -> 1000
      [] d = -1 -> 368
      [] d = -2 -> 135
      [] d = -3 -> 50
      [] d = -4 -> 18
      [] d = -5 -> 7
      [] d = -6 -> 2
      [] d = -7 -> 1
      [] OTHER -> 0

\* attention_scores.masked_fill_(mask == 0, -1e9), skipped when mask is None
MaskedFillZero(sc, m) ==
    IF m = <<>> THEN sc
    ELSE [sc EXCEPT !.num = [j \in 1..Len(sc.num) |->
                                IF m[j] = 0 THEN 0 ELSE sc.num[j]]]
MaskedFill(sc, m) ==
    IF m = <<>> THEN sc
    ELSE [sc EXCEPT !.num = [j \in 1..Len(sc.num) |->
                                IF m[j] = 0 THEN fill_value ELSE sc.num[j]]]

\* attention_scores.softmax(dim = -1): exp(s - max) over its sum
Softmax(sc) ==
    LET top == MaxSeq(sc.num)
        e == [j \in 1..Len(sc.num) |-> ExpFix(sc.num[j] - top)]
    IN  [num |-> e, den |-> SumSeq(e)]

\* dropout(attention_scores) in train mode: the weights in drop become 0, the
\* others are scaled by 10/9
Dropout(w, drop) ==
    [num |-> [j \in 1..Len(w.num) |->
                 IF j \in drop THEN 0 ELSE w.num[j] * dropout_scale_num],
     den |-> w.den * dropout_scale_den]

AttentionStart ==
    /\ apc = "masked_fill"
    /\ \E n \in 1..MaxPositions :
          /\ \E sc \in [1..n -> 0..MaxScore] : attention_scores = [num |-> sc, den |-> 1]
          /\ mask \in {<<>>} \cup [1..n -> {0, 1}]
    /\ dropout \in {"None", "eval", "train"}

\* if mask is not None: attention_scores.masked_fill_(mask == 0, -1e9)
AT_MaskedFill ==
    /\ apc = "masked_fill"
    /\ attention_scores' = MaskedFill(attention_scores, mask)
    /\ apc' = "softmax"
    /\ UNCHANGED <<mask, dropout>>
    /\ UNCHANGED nonattention

\* attention_scores = attention_scores.softmax(dim = -1)
AT_Softmax ==
    /\ apc = "softmax"
    /\ attention_scores' = Softmax(attention_scores)
    /\ apc' = "dropout"
    /\ UNCHANGED <<mask, dropout>>
    /\ UNCHANGED nonattention

\* if dropout is not None: attention_scores = dropout(attention_scores); the module
\* zeroes a random set of weights in train mode and changes nothing in eval mode
AT_Dropout ==
    /\ apc = "dropout"
    /\ IF dropout = "train"
         THEN \E drop \in SUBSET (1..Len(attention_scores.num)) :
                 attention_scores' = Dropout(attention_scores, drop)
         ELSE attention_scores' = attention_scores
    /\ apc' = "return"
    /\ UNCHANGED <<mask, dropout>>
    /\ UNCHANGED nonattention

AttentionNext ==
    \/ AT_MaskedFill
    \/ AT_Softmax
    \/ AT_Dropout

AttentionInit ==
    /\ AttentionStart
    /\ GreedyIdle /\ DatasetIdle /\ MHAIdle /\ TransformerIdle
    /\ PositionalIdle /\ ResidualIdle /\ TrainIdle /\ DecoderIdle

AttentionSpec == AttentionInit /\ [][AttentionNext]_vars

(***************************************************************************)
(* build_transformer and the shapes of Transformer.encode, decode, project *)
(***************************************************************************)
\* value can be assigned to a slice of shape dst: equal sizes, or size 1 expanded
ExpandableTo(value, dst) ==
    /\ Len(value) = Len(dst)
    /\ \A i \in 1..Len(dst) : value[i] = dst[i] \/ value[i] = 1

\* PositionalEncoding.__init__: the (1, seq_len, d_model) table.  div_term has one
\* entry per even index; pe[:, 0::2] takes sin(position * div_term) and pe[:, 1::2],
\* which has d_model // 2 columns, takes cos(position * div_term)
PositionalTable(dm, sl) ==
    LET terms == (dm + 1) \div 2
    IN  IF /\ ExpandableTo(<<sl, terms>>, <<sl, (dm + 1) \div 2>>)
           /\ ExpandableTo(<<sl, terms>>, <<sl, dm \div 2>>)
          THEN <<1, sl, dm>>
          ELSE ShapeError

\* InputEmbeddings.forward: (batch, length) -> (batch, length, d_model)
InputEmbeddings(dm, x) == IF IsError(x) THEN ShapeError ELSE x \o <<dm>>

\* PositionalEncoding.forward: x + pe[:, :x.shape[1], :], then dropout
PositionalEncoding(dm, sl, x) ==
    IF IsError(x) \/ Len(x) # 3 THEN ShapeError
    ELSE Broadcast(x, <<1, Min2(x[2], sl), dm>>)

\* LayerNormalization.forward: alpha * (x - mean) / (std + eps) + bias
LayerNormalization(x) == x

\* FeedForwardBlock.forward: linear_2(dropout(relu(linear_1(x))))
FeedForwardBlock(tr, x) == Linear(tr.d_ff, tr.d_model, Linear(tr.d_model, tr.d_ff, x))

\* a MultiHeadAttentionBlock of the transformer applied to q, k, v, mask
AttentionBlock(tr, q, k, v, msk) == MHAForward(tr.d_model, tr.h, tr.d_k, q, k, v, msk)

\* ResidualConnection.forward: x + dropout(sublayer(norm(x))), given sublayer's result
ResidualConnection(x, sub) == Broadcast(x, sub)

\* EncoderBlock.forward(x, src_mask)
EncoderBlock(tr, x, src_mask) ==
    LET n1 == LayerNormalization(x)
        a == ResidualConnection(x, AttentionBlock(tr, n1, n1, n1, src_mask))
    IN  ResidualConnection(a, FeedForwardBlock(tr, LayerNormalization(a)))

\* Encoder.forward: the n layers, then the norm
RECURSIVE EncoderLayers(_, _, _, _)
EncoderLayers(tr, x, src_mask, n) ==
    IF n = 0 THEN x
    ELSE EncoderBlock(tr, EncoderLayers(tr, x, src_mask, n - 1), src_mask)

Encoder(tr, x, src_mask) == LayerNormalization(EncoderLayers(tr, x, src_mask, tr.N))

\* DecoderBlock.forward(x, encoder_output, src_mask, tgt_mask)
DecoderBlock(tr, x, enc, src_mask, tgt_mask) ==
    LET n1 == LayerNormalization(x)
        a == ResidualConnection(x, AttentionBlock(tr, n1, n1, n1, tgt_mask))
        n2 == LayerNormalization(a)
        b == ResidualConnection(a, AttentionBlock(tr, n2, enc, enc, src_mask))
    IN  ResidualConnection(b, FeedForwardBlock(tr, LayerNormalization(b)))

\* Decoder.forward: the n layers, then the norm
RECURSIVE DecoderLayers(_, _, _, _, _, _)
DecoderLayers(tr, x, enc, src_mask, tgt_mask, n) ==
    IF n = 0 THEN x
    ELSE DecoderBlock(tr, DecoderLayers(tr, x, enc, src_mask, tgt_mask, n - 1),
                      enc, src_mask, tgt_mask)

Decoder(tr, x, enc, src_mask, tgt_mask) ==
    LayerNormalization(DecoderLayers(tr, x, enc, src_mask, tgt_mask, tr.N))

\* Transformer.encode(src, src_mask)
TransformerEncode(tr, src, src_mask) ==
    Encoder(tr, PositionalEncoding(tr.d_model, tr.src_seq_len,
                                   InputEmbeddings(tr.d_model, src)), src_mask)

\* Transformer.decode(encoder_output, src_mask, tgt, tgt_mask)
TransformerDecode(tr, enc, src_mask, tgt, tgt_mask) ==
    Decoder(tr, PositionalEncoding(tr.d_model, tr.tgt_seq_len,
                                   InputEmbeddings(tr.d_model, tgt)),
            enc, src_mask, tgt_mask)

\* ProjectionLayer.forward: log_softmax(proj(x), dim = -1); the shape
ProjectionLayerSrcVocab(tr, x) == Linear(tr.d_model, tr.src_vocab_size, x)
ProjectionLayer(tr, x) == Linear(tr.d_model, tr.tgt_vocab_size, x)

\* torch.log_softmax over one row of logits: entry j is log(num[j] / den)
LogSoftmax(logits) == Softmax([num |-> logits, den |-> 1])

\* the transformer of the end-to-end scenario: vocabularies of 100 and 120 entries,
\* seq_len 10, d_model 16, N 2, h 2 (d_ff at its default)
ScenarioArguments ==
    [src_vocab_size |-> 100, tgt_vocab_size |-> 120, src_seq_len |-> 10,
     tgt_seq_len |-> 10, d_model |-> 16, N |-> 2, h |-> 2, d_ff |-> 2048, d_k |-> 0]

\* the arguments build_transformer is explored with
BuildArguments ==
    { [src_vocab_size |-> MaxTokenId + 1, tgt_vocab_size |-> MaxTokenId + 2,
       src_seq_len |-> ss, tgt_seq_len |-> ts, d_model |-> dm, N |-> n, h |-> hh,
       d_ff |-> 4 * dm, d_k |-> 0] :
         ss \in (MaxPositions - 1)..MaxPositions,
         ts \in (MaxPositions - 1)..MaxPositions,
         dm \in 1..MaxDModel, n \in 1..MaxLayers, hh \in 1..MaxHeads }
    \cup {ScenarioArguments}

\* the rows of logits project is explored on: one entry, the first or the last,
\* apart from the others
LogitRows(v) ==
    { [j \in 1..v |-> IF j = p THEN hi ELSE lo] :
         p \in {1, v}, lo \in 0..MaxScore, hi \in 0..MaxScore }

TransformerStart ==
    /\ tpc = "build"
    /\ transformer \in BuildArguments
    /\ t_src = <<>>
    /\ t_src_mask = <<>>
    /\ t_tgt = <<>>
    /\ t_tgt_mask = <<>>
    /\ t_enc = <<>>
    /\ t_dec = <<>>
    /\ t_proj = <<>>
    /\ t_row = [num |-> <<>>, den |-> 1]

\* both positional tables can be built
TablesBuilt(tr) ==
    /\ ~IsError(PositionalTable(tr.d_model, tr.src_seq_len))
    /\ ~IsError(PositionalTable(tr.d_model, tr.tgt_seq_len))

\* build_transformer returns the transformer
T_Build ==
    /\ tpc = "build"
    /\ TablesBuilt(transformer)
    /\ Divisible(transformer.d_model, transformer.h)
    /\ transformer' = [transformer EXCEPT
                          !.d_k = HeadDim(transformer.d_model, transformer.h)]
    /\ tpc' = "encode"
    /\ UNCHANGED <<t_src, t_src_mask, t_tgt, t_tgt_mask, t_enc, t_dec, t_proj, t_row>>
    /\ UNCHANGED nontransformer

\* PositionalEncoding.__init__ raises: the cosine columns do not fit the table
T_BuildTableError ==
    /\ tpc = "build"
    /\ ~TablesBuilt(transformer)
    /\ tpc' = "RuntimeError"
    /\ UNCHANGED <<transformer, t_src, t_src_mask, t_tgt, t_tgt_mask, t_enc, t_dec,
                   t_proj, t_row>>
    /\ UNCHANGED nontransformer

\* the first MultiHeadAttentionBlock's assertion fails
T_BuildAssertError ==
    /\ tpc = "build"
    /\ TablesBuilt(transformer)
    /\ ~Divisible(transformer.d_model, transformer.h)
    /\ tpc' = "AssertionError"
    /\ UNCHANGED <<transformer, t_src, t_src_mask, t_tgt, t_tgt_mask, t_enc, t_dec,
                   t_proj, t_row>>
    /\ UNCHANGED nontransformer

\* encoder_output = model.encode(src, src_mask), src of (b, ls) within src_seq_len
T_Encode ==
    /\ tpc = "encode"
    /\ \E b \in 1..MaxBatch, ls \in 1..transformer.src_seq_len :
          /\ t_src' = <<b, ls>>
          /\ t_src_mask' = <<b, 1, 1, ls>>
          /\ t_enc' = TransformerEncode(transformer, <<b, ls>>, <<b, 1, 1, ls>>)
    /\ tpc' = "decode"
    /\ UNCHANGED <<transformer, t_tgt, t_tgt_mask, t_dec, t_proj, t_row>>
    /\ UNCHANGED nontransformer

\* decoder_output = model.decode(encoder_output, src_mask, tgt, tgt_mask), tgt of
\* (b, lt) within tgt_seq_len, tgt_mask the dataset's or greedy_decode's
T_Decode ==
    /\ tpc = "decode"
    /\ \E lt \in 1..transformer.tgt_seq_len :
          \E m \in { <<t_src[1], 1, lt, lt>>, <<1, lt, lt>> } :
             /\ t_tgt' = <<t_src[1], lt>>
             /\ t_tgt_mask' = m
             /\ t_dec' = TransformerDecode(transformer, t_enc, t_src_mask,
                                           <<t_src[1], lt>>, m)
    /\ tpc' = "project"
    /\ UNCHANGED <<transformer, t_src, t_src_mask, t_enc, t_proj, t_row>>
    /\ UNCHANGED nontransformer

\* proj_output = model.project(decoder_output)
T_Project ==
    /\ tpc = "project"
    /\ t_proj' = ProjectionLayer(transformer, t_dec)
    /\ \E logits \in LogitRows(ProjectionLayer(transformer, t_dec)[Len(t_dec)]) :
          t_row' = LogSoftmax(logits)
    /\ tpc' = "projected"
    /\ UNCHANGED <<transformer, t_src, t_src_mask, t_tgt, t_tgt_mask, t_enc, t_dec>>
    /\ UNCHANGED nontransformer

TransformerNext ==
    \/ T_Build
    \/ T_BuildTableError
    \/ T_BuildAssertError
    \/ T_Encode
    \/ T_Decode
    \/ T_Project

TransformerInit ==
    /\ TransformerStart
    /\ GreedyIdle /\ DatasetIdle /\ MHAIdle /\ AttentionIdle /\ PositionalIdle
    /\ ResidualIdle /\ TrainIdle /\ DecoderIdle

TransformerSpec == TransformerInit /\ [][TransformerNext]_vars

(***************************************************************************)
(* The values of the positional table.  A float is kept as an integer      *)
(* number of 1/10000 units; exp, sin and cos are their power series in     *)
(* that arithmetic.                                                        *)
(***************************************************************************)
\* the product of two fixed-point numbers
MulFix(a, b) == IF a * b >= 0 THEN (a * b) \div 10000 ELSE -((-(a * b)) \div 10000)

\* the term after the k-th term of a power series in x: term * x / (k + 1)
NextTerm(term, x, k) ==
    LET t == MulFix(term, x)
    IN  IF t >= 0 THEN t \div (k + 1) ELSE -((-t) \div (k + 1))

\* the sum from its k-th term on of the series of e^x (step = 1), or of the
\* alternating series of sin and cos, which take every second term (step = 2)
RECURSIVE Series(_, _, _, _)
Series(x, term, k, step) ==
    IF term = 0 \/ k > 24 THEN 0
    ELSE term + Series(x,
                       IF step = 1
                         THEN NextTerm(term, x, k)
                         ELSE -NextTerm(NextTerm(term, x, k), x, k + 1),
                       k + step, step)

\* e^(-n) for a natural number n
RECURSIVE InvEPower(_)
InvEPower(n) == IF n = 0 THEN 10000 ELSE MulFix(3679, InvEPower(n - 1))

\* torch.exp(-y) for y >= 0: e^(-floor(y)) / e^(frac(y))
ExpNeg(y) ==
    (InvEPower(y \div 10000) * 10000) \div Series(y % 10000, 10000, 0, 1)

\* the angle brought into (-pi, pi]
Reduce(a) == LET r == a % 62832 IN IF r > 31416 THEN r - 62832 ELSE r

\* torch.sin and torch.cos
Sin(a) == Series(Reduce(a), Reduce(a), 1, 2)
Cos(a) == Series(Reduce(a), 10000, 0, 2)

\* position = torch.arange(0, seq_len): the position of row p of the table
positionFromOne(sl) == [p \in 1..sl |-> p]
position(sl) == [p \in 1..sl |-> p - 1]

\* div_term = torch.exp(torch.arange(0, d_model, 2) * (-math.log(10000.0) / d_model))
div_term(dm) ==
    [k \in 1..((dm + 1) \div 2) |-> ExpNeg((2 * (k - 1) * 92103) \div dm)]

\* the table PositionalEncoding.__init__ registers, without its leading dimension:
\* column index i - 1 is even -> sin(position * div_term), odd -> cos
PositionalValues(dm, sl) ==
    [p \in 1..sl |->
        [i \in 1..dm |->
            LET angle == position(sl)[p] * div_term(dm)[((i - 1) \div 2) + 1]
            IN  IF (i - 1) % 2 = 0 THEN Sin(angle) ELSE Cos(angle)]]

PositionalStart ==
    /\ ppc = "construct"
    /\ pe_d_model \in 1..MaxDModel
    /\ pe_seq_len \in 1..MaxSeqLen
    /\ pe = <<>>
    /\ pe_again = <<>>
    /\ pe_slice = <<>>

\* PositionalEncoding(d_model, seq_len, dropout)
PE_Construct ==
    /\ ppc = "construct"
    /\ ~IsError(PositionalTable(pe_d_model, pe_seq_len))
    /\ pe' = PositionalValues(pe_d_model, pe_seq_len)
    /\ ppc' = "again"
    /\ UNCHANGED <<pe_d_model, pe_seq_len, pe_again, pe_slice>>
    /\ UNCHANGED nonpositional

\* the assignment of the cosine columns raises
PE_Raise ==
    /\ ppc = "construct"
    /\ IsError(PositionalTable(pe_d_model, pe_seq_len))
    /\ ppc' = "RuntimeError"
    /\ UNCHANGED <<pe_d_model, pe_seq_len, pe, pe_again, pe_slice>>
    /\ UNCHANGED nonpositional

\* a second PositionalEncoding(d_model, seq_len, dropout) with the same arguments
PE_ConstructAgain ==
    /\ ppc = "again"
    /\ pe_again' = PositionalValues(pe_d_model, pe_seq_len)
    /\ ppc' = "forward"
    /\ UNCHANGED <<pe_d_model, pe_seq_len, pe, pe_slice>>
    /\ UNCHANGED nonpositional

\* forward(x) on x of length len within seq_len: the rows self.pe[:, :x.shape[1], :]
PE_Forward ==
    /\ ppc = "forward"
    /\ \E len \in 1..pe_seq_len : pe_slice' = SubSeq(pe, 1, len)
    /\ ppc' = "done"
    /\ UNCHANGED <<pe_d_model, pe_seq_len, pe, pe_again>>
    /\ UNCHANGED nonpositional

PositionalNext ==
    \/ PE_Construct
    \/ PE_Raise
    \/ PE_ConstructAgain
    \/ PE_Forward

PositionalInit ==
    /\ PositionalStart
    /\ GreedyIdle /\ DatasetIdle /\ MHAIdle /\ AttentionIdle
    /\ TransformerIdle /\ ResidualIdle /\ TrainIdle /\ DecoderIdle

PositionalSpec == PositionalInit /\ [][PositionalNext]_vars

(***************************************************************************)
(* ResidualConnection.forward(x, sublayer).  A tensor is followed as its   *)
(* shape and the sequence of operations that made it from x.               *)
(***************************************************************************)
\* self.norm(t)
NotNormed(t) == t
Normed(t) == [shape |-> LayerNormalization(t.shape), ops |-> Append(t.ops, "norm")]

\* the sublayers forward is explored with: one that keeps the shape (the attention
\* and feed-forward blocks the encoder and decoder pass), one that widens the
\* last dimension, one that repeats the batch
Sublayers == {"preserve", "widen", "repeat"}

\* sublayer(t)
Sublayer(kind, t) ==
    [shape |-> CASE kind = "preserve" -> t.shape
                 [] kind = "widen" -> [t.shape EXCEPT ![Len(t.shape)] = @ + 1]
                 [] OTHER -> [t.shape EXCEPT ![1] = 2 * @],
     ops |-> Append(t.ops, "sublayer")]

\* self.dropout(t): nn.Dropout keeps the shape in both modes
Dropped(t) == [shape |-> t.shape, ops |-> Append(t.ops, "dropout")]

\* x + t
Add(x, t) == [shape |-> ResidualConnection(x.shape, t.shape), terms |-> <<x.ops, t.ops>>]

ResidualStart ==
    /\ rpc = "norm"
    /\ \E b \in 1..MaxBatch, len \in 1..MaxPositions, dm \in 1..MaxDModel :
          r_x = [shape |-> <<b, len, dm>>, ops |-> <<>>]
    /\ r_sublayer \in Sublayers
    /\ r_mode \in {"train", "eval"}
    /\ r_normed = NoValue
    /\ r_sub = NoValue
    /\ r_dropped = NoValue
    /\ r_out = NoSum
    /\ r_calls = <<>>

\* self.norm(x)
RC_Norm ==
    /\ rpc = "norm"
    /\ r_normed' = Normed(r_x)
    /\ rpc' = "sublayer"
    /\ UNCHANGED <<r_x, r_sublayer, r_mode, r_sub, r_dropped, r_out, r_calls>>
    /\ UNCHANGED nonresidual

\* sublayer(self.norm(x))
RC_Sublayer ==
    /\ rpc = "sublayer"
    /\ r_calls' = Append(r_calls, r_normed)
    /\ r_sub' = Sublayer(r_sublayer, r_normed)
    /\ rpc' = "dropout"
    /\ UNCHANGED <<r_x, r_sublayer, r_mode, r_normed, r_dropped, r_out>>
    /\ UNCHANGED nonresidual

\* self.dropout(sublayer(self.norm(x)))
RC_Dropout ==
    /\ rpc = "dropout"
    /\ r_dropped' = Dropped(r_sub)
    /\ rpc' = "add"
    /\ UNCHANGED <<r_x, r_sublayer, r_mode, r_normed, r_sub, r_out, r_calls>>
    /\ UNCHANGED nonresidual

\* return x + ...
RC_Add ==
    /\ rpc = "add"
    /\ ~IsError(Add(r_x, r_dropped).shape)
    /\ r_out' = Add(r_x, r_dropped)
    /\ rpc' = "return"
    /\ UNCHANGED <<r_x, r_sublayer, r_mode, r_normed, r_sub, r_dropped, r_calls>>
    /\ UNCHANGED nonresidual

\* the sum raises: the shapes do not broadcast
RC_AddRaise ==
    /\ rpc = "add"
    /\ IsError(Add(r_x, r_dropped).shape)
    /\ rpc' = "RuntimeError"
    /\ UNCHANGED <<r_x, r_sublayer, r_mode, r_normed, r_sub, r_dropped, r_out, r_calls>>
    /\ UNCHANGED nonresidual

ResidualNext ==
    \/ RC_Norm
    \/ RC_Sublayer
    \/ RC_Dropout
    \/ RC_Add
    \/ RC_AddRaise

ResidualInit ==
    /\ ResidualStart
    /\ GreedyIdle /\ DatasetIdle /\ MHAIdle /\ AttentionIdle
    /\ TransformerIdle /\ PositionalIdle /\ TrainIdle /\ DecoderIdle

ResidualSpec == ResidualInit /\ [][ResidualNext]_vars

(***************************************************************************)
(* train_model(config) and run_validation.  The parameters are followed as *)
(* their initialisation (one per started run) and the gradients the        *)
(* optimizer has applied to them; a gradient is the sequence of batches    *)
(* whose backward passes are summed in .grad.  The checkpoint files outlive *)
(* a run; everything else is rebuilt when train_model is started again.    *)
(***************************************************************************)
\* num_examples of run_validation
num_examples == 2

\* loss.backward(): the batch's gradient is added to .grad
Backward(g, b) == Append(g, b)

\* optimizer.step(): the parameters move by the gradient
OptimizerStep(p, g) == [p EXCEPT !.updates = Append(@, g)]

\* the optimizer's own state after the step
OptimizerState(o, g) == Append(o, g)

\* optimizer.zero_grad()
ZeroGradKeep(g) == g
ZeroGrad(g) == <<>>

\* the dictionary torch.save writes at the end of an epoch
Checkpoint(e, p, o, gs) ==
    [epoch |-> e, model_state_dict |-> p, optimizer_state_dict |-> o, global_step |-> gs]

\* one torch.save call: the epoch and global_step it wrote, and where the run
\* stood when it wrote them (the batches of the epoch done, the model's mode)
Saved(e, gs, b, m) == [epoch |-> e, global_step |-> gs, batches |-> b, mode |-> m]

\* range(initial_epoch, config['num_epochs']): the value after cur, -1 before the loop
NextEpoch(cur, first) == IF cur = -1 THEN first ELSE cur + 1

\* the operations of one training batch, in the order of the loop body
BatchOrder == <<"encode", "decode", "project", "loss", "backward", "step", "zero_grad">>

TrainStart ==
    /\ npc = "start"
    /\ run = 1
    /\ \E ne \in 1..MaxEpochs, pre \in {-1, 0} :
          config = [preload |-> pre, num_epochs |-> ne, seq_len |-> ValSeqLen]
    /\ train_dataloader \in 1..MaxBatches
    /\ val_dataloader \in {1, num_examples + 1}
    /\ weights = NoWeights
    /\ saves = <<>>
    /\ parameters = NoParameters
    /\ optimizer_state = <<>>
    /\ grads = <<>>
    /\ global_step = 0
    /\ initial_epoch = 0
    /\ epoch = -1
    /\ batch = 0
    /\ trace = <<>>
    /\ mode = "train"
    /\ val_batch = 0
    /\ count = 0
    /\ encoder_input = NoTensor
    /\ encoder_mask = NoTensor

\* get_model, the optimizer, initial_epoch = 0, global_step = 0
TM_Start ==
    /\ npc = "start"
    /\ parameters' = [init |-> run, updates |-> <<>>]
    /\ optimizer_state' = <<>>
    /\ grads' = <<>>
    /\ global_step' = 0
    /\ initial_epoch' = 0
    /\ npc' = "preload"
    /\ UNCHANGED <<inputv, weights, saves, epoch, batch, valv, trace, mode>>
    /\ UNCHANGED nontrain

\* if config['preload']: false
TM_NoPreload ==
    /\ npc = "preload"
    /\ config.preload = -1
    /\ npc' = "epoch_loop"
    /\ UNCHANGED <<inputv, weights, saves, loopv, modelv, valv, trace, mode>>
    /\ UNCHANGED nontrain

\* state = torch.load(model_filename); initial_epoch, the optimizer's state and
\* global_step are taken from it
TM_Preload ==
    /\ npc = "preload"
    /\ config.preload # -1
    /\ weights[config.preload] # NoCheckpoint
    /\ LET state == weights[config.preload]
       IN  /\ initial_epoch' = state.epoch + 1
           /\ optimizer_state' = state.optimizer_state_dict
           /\ global_step' = state.global_step
    /\ npc' = "epoch_loop"
    /\ UNCHANGED <<inputv, weights, saves, epoch, batch, parameters, grads, valv, trace, mode>>
    /\ UNCHANGED nontrain

\* torch.load raises: there is no such file
TM_PreloadRaise ==
    /\ npc = "preload"
    /\ config.preload # -1
    /\ weights[config.preload] = NoCheckpoint
    /\ npc' = "FileNotFoundError"
    /\ UNCHANGED <<inputv, weights, saves, loopv, modelv, valv, trace, mode>>
    /\ UNCHANGED nontrain

\* for epoch in range(initial_epoch, config['num_epochs'])
TM_Epoch ==
    /\ npc = "epoch_loop"
    /\ IF NextEpoch(epoch, initial_epoch) < config.num_epochs
         THEN /\ epoch' = NextEpoch(epoch, initial_epoch)
              /\ batch' = 0
              /\ npc' = "batch_loop"
         ELSE /\ UNCHANGED <<epoch, batch>>
              /\ npc' = "done"
    /\ UNCHANGED <<inputv, weights, saves, initial_epoch, modelv, valv, trace, mode>>
    /\ UNCHANGED nontrain

\* for batch in batch_iterator
TM_Batch ==
    /\ npc = "batch_loop"
    /\ IF batch < train_dataloader
         THEN /\ batch' = batch + 1
              /\ trace' = <<>>
              /\ npc' = "train"
         ELSE /\ UNCHANGED <<batch, trace>>
              /\ npc' = "validation"
    /\ UNCHANGED <<inputv, weights, saves, initial_epoch, epoch, modelv, valv, mode>>
    /\ UNCHANGED nontrain

\* model.train()
TM_Train ==
    /\ npc = "train"
    /\ mode' = "train"
    /\ npc' = "encode"
    /\ UNCHANGED <<inputv, weights, saves, loopv, modelv, valv, trace>>
    /\ UNCHANGED nontrain

\* encoder_output = model.encode(encoder_input, encoder_mask)
TM_Encode ==
    /\ npc = "encode"
    /\ trace' = Append(trace, "encode")
    /\ npc' = "decode"
    /\ UNCHANGED <<inputv, weights, saves, loopv, modelv, valv, mode>>
    /\ UNCHANGED nontrain

\* decoder_output = model.decode(encoder_output, encoder_mask, decoder_input, decoder_mask)
TM_Decode ==
    /\ npc = "decode"
    /\ trace' = Append(trace, "decode")
    /\ npc' = "project"
    /\ UNCHANGED <<inputv, weights, saves, loopv, modelv, valv, mode>>
    /\ UNCHANGED nontrain

\* proj_output = model.project(decoder_output)
TM_Project ==
    /\ npc = "project"
    /\ trace' = Append(trace, "project")
    /\ npc' = "loss"
    /\ UNCHANGED <<inputv, weights, saves, loopv, modelv, valv, mode>>
    /\ UNCHANGED nontrain

\* loss = loss_fn(proj_output.view(-1, vocab), label.view(-1))
TM_Loss ==
    /\ npc = "loss"
    /\ trace' = Append(trace, "loss")
    /\ npc' = "backward"
    /\ UNCHANGED <<inputv, weights, saves, loopv, modelv, valv, mode>>
    /\ UNCHANGED nontrain

\* loss.backward()
TM_Backward ==
    /\ npc = "backward"
    /\ grads' = Backward(grads, <<epoch, batch>>)
    /\ trace' = Append(trace, "backward")
    /\ npc' = "step"
    /\ UNCHANGED <<inputv, weights, saves, loopv, parameters, optimizer_state, global_step,
                   valv, mode>>
    /\ UNCHANGED nontrain

\* optimizer.step()
TM_Step ==
    /\ npc = "step"
    /\ parameters' = OptimizerStep(parameters, grads)
    /\ optimizer_state' = OptimizerState(optimizer_state, grads)
    /\ trace' = Append(trace, "step")
    /\ npc' = "zero_grad"
    /\ UNCHANGED <<inputv, weights, saves, loopv, grads, global_step, valv, mode>>
    /\ UNCHANGED nontrain

\* optimizer.zero_grad()
TM_ZeroGrad ==
    /\ npc = "zero_grad"
    /\ grads' = ZeroGrad(grads)
    /\ trace' = Append(trace, "zero_grad")
    /\ npc' = "global_step"
    /\ UNCHANGED <<inputv, weights, saves, loopv, parameters, optimizer_state, global_step,
                   valv, mode>>
    /\ UNCHANGED nontrain

\* global_step += 1
TM_GlobalStepSkipped ==
    /\ npc = "global_step"
    /\ npc' = "batch_loop"
    /\ UNCHANGED <<inputv, weights, saves, loopv, modelv, valv, trace, mode>>
    /\ UNCHANGED nontrain

TM_GlobalStep ==
    /\ npc = "global_step"
    /\ global_step' = global_step + 1
    /\ npc' = "batch_loop"
    /\ UNCHANGED <<inputv, weights, saves, loopv, parameters, optimizer_state, grads, valv,
                   trace, mode>>
    /\ UNCHANGED nontrain

\* run_validation(...): model.eval(); count = 0
TM_ValidationTrains ==
    /\ npc = "validation"
    /\ mode' = "eval"
    /\ count' = 0
    /\ val_batch' = 0
    /\ parameters' = OptimizerStep(parameters, grads)
    /\ npc' = "val_loop"
    /\ UNCHANGED <<inputv, weights, saves, loopv, optimizer_state, grads, global_step,
                   encoder_input, encoder_mask, trace>>
    /\ UNCHANGED nontrain

TM_Validation ==
    /\ npc = "validation"
    /\ mode' = "eval"
    /\ count' = 0
    /\ val_batch' = 0
    /\ npc' = "val_loop"
    /\ UNCHANGED <<inputv, weights, saves, loopv, modelv, encoder_input, encoder_mask, trace>>
    /\ UNCHANGED nontrain

\* run_validation returns: its local variables are gone
ValidationReturns ==
    /\ val_batch' = 0
    /\ count' = 0
    /\ encoder_input' = NoTensor
    /\ encoder_mask' = NoTensor

\* for batch in validation_ds: count += 1; encoder_input, encoder_mask of the batch
TM_ValBatch ==
    /\ npc = "val_loop"
    /\ IF val_batch < val_dataloader
         THEN /\ val_batch' = val_batch + 1
              /\ count' = count + 1
              /\ \E src \in Sources :
                    /\ encoder_input' = src
                    /\ encoder_mask' = pad_mask(src)
              /\ npc' = "greedy_decode"
         ELSE /\ ValidationReturns
              /\ npc' = "save"
    /\ UNCHANGED <<inputv, weights, saves, loopv, modelv, trace, mode>>
    /\ UNCHANGED nontrain

\* model_out = greedy_decode(model, encoder_input, encoder_mask, ..., max_len, device):
\* the call
TM_GreedyDecode ==
    /\ npc = "greedy_decode"
    /\ gpc' = "encode"
    /\ max_len' = config.seq_len
    /\ source' = encoder_input
    /\ source_mask' = encoder_mask
    /\ encoder_output' = NoEncoding
    /\ decoder_input' = NoTensor
    /\ causal' = NoTensor
    /\ decoder_mask' = NoTensor
    /\ out' = NoTensor
    /\ prob' = NoState
    /\ next_word' = NoWord
    /\ exit_via' = "none"
    /\ calls' = <<>>
    /\ result' = NoTensor
    /\ npc' = "in_greedy_decode"
    /\ UNCHANGED <<inputv, weights, saves, loopv, modelv, valv, trace, mode>>
    /\ UNCHANGED nontrainandgreedy

\* greedy_decode has returned; its result is model_out
TM_GreedyReturn ==
    /\ npc = "in_greedy_decode"
    /\ gpc = "done"
    /\ gpc' = "idle"
    /\ max_len' = 0
    /\ source' = NoTensor
    /\ source_mask' = NoTensor
    /\ encoder_output' = NoEncoding
    /\ decoder_input' = NoTensor
    /\ causal' = NoTensor
    /\ decoder_mask' = NoTensor
    /\ out' = NoTensor
    /\ prob' = NoState
    /\ next_word' = NoWord
    /\ exit_via' = "none"
    /\ calls' = <<>>
    /\ result' = NoTensor
    /\ npc' = "val_print"
    /\ UNCHANGED <<inputv, weights, saves, loopv, modelv, val_batch, count, encoder_input,
                   encoder_mask, trace, mode>>
    /\ UNCHANGED nontrainandgreedy

\* the messages are printed; if count == num_examples: break
TM_ValPrint ==
    /\ npc = "val_print"
    /\ IF count = num_examples
         THEN /\ ValidationReturns
              /\ npc' = "save"
         ELSE /\ UNCHANGED valv
              /\ npc' = "val_loop"
    /\ UNCHANGED <<inputv, weights, saves, loopv, modelv, trace, mode>>
    /\ UNCHANGED nontrain

\* torch.save({'epoch', 'model_state_dict', 'optimizer_state_dict', 'global_step'})
TM_Save ==
    /\ npc = "save"
    /\ weights' = [weights EXCEPT
                      ![epoch] = Checkpoint(epoch, parameters, optimizer_state, global_step)]
    /\ saves' = Append(saves, Saved(epoch, global_step, batch, mode))
    /\ npc' = "epoch_loop"
    /\ UNCHANGED <<inputv, loopv, modelv, valv, trace, mode>>
    /\ UNCHANGED nontrain

\* train_model has returned and is started again, with the same data and model
\* folder and any preload
TM_Restart ==
    /\ npc = "done"
    /\ run < MaxRuns
    /\ run' = run + 1
    /\ saves' = <<>>
    /\ \E pre \in -1..(MaxEpochs - 1) : config' = [config EXCEPT !.preload = pre]
    /\ parameters' = NoParameters
    /\ optimizer_state' = <<>>
    /\ grads' = <<>>
    /\ global_step' = 0
    /\ initial_epoch' = 0
    /\ epoch' = -1
    /\ batch' = 0
    /\ trace' = <<>>
    /\ mode' = "train"
    /\ val_batch' = 0
    /\ count' = 0
    /\ encoder_input' = NoTensor
    /\ encoder_mask' = NoTensor
    /\ npc' = "start"
    /\ UNCHANGED <<train_dataloader, val_dataloader, weights>>
    /\ UNCHANGED nontrain

TrainNext ==
    \/ TM_Start
    \/ TM_NoPreload
    \/ TM_Preload
    \/ TM_PreloadRaise
    \/ TM_Epoch
    \/ TM_Batch
    \/ TM_Train
    \/ TM_Encode
    \/ TM_Decode
    \/ TM_Project
    \/ TM_Loss
    \/ TM_Backward
    \/ TM_Step
    \/ TM_ZeroGrad
    \/ TM_GlobalStep
    \/ TM_Validation
    \/ TM_ValBatch
    \/ TM_GreedyDecode
    \/ GreedyNext
    \/ TM_GreedyReturn
    \/ TM_ValPrint
    \/ TM_Save
    \/ TM_Restart

TrainInit ==
    /\ TrainStart
    /\ GreedyIdle /\ DatasetIdle /\ MHAIdle /\ AttentionIdle
    /\ TransformerIdle /\ PositionalIdle /\ ResidualIdle /\ DecoderIdle

TrainSpec == TrainInit /\ [][TrainNext]_vars

(***************************************************************************)
(* Decoder.forward and DecoderBlock.forward, call by call.  A tensor is    *)
(* its shape and the blocks it went through; every call of an attention    *)
(* block, of a feed-forward block and of the final norm is logged with the *)
(* tensors and the mask it was passed.                                     *)
(***************************************************************************)
\* the entry of the log for a block called from residual connection r of layer n
Call(n, r, block, q, k, v, msk) ==
    [layer |-> n, residual |-> r, block |-> block, q |-> q, k |-> k, v |-> v, mask |-> msk]

\* lambda x: self.self_attention_block(x, x, x, tgt_mask), on the normalized x
SelfAttentionCall(n, x, tgt_mask) ==
    Call(n, 0, "self_attention", Normed(x), Normed(x), Normed(x), tgt_mask)

\* lambda x: self.cross_attention_block(x, encoder_output, encoder_output, src_mask)
CrossAttentionCallOnState(n, x, enc, src_mask) ==
    Call(n, 1, "cross_attention", Normed(x), Normed(x), Normed(x), src_mask)
CrossAttentionCall(n, x, enc, src_mask) ==
    Call(n, 1, "cross_attention", Normed(x), enc, enc, src_mask)

\* self.feed_forward_block, on the normalized x
FeedForwardCall(n, x) ==
    Call(n, 2, "feed_forward", Normed(x), NoValue, NoValue, <<>>)

\* x after a residual connection around a block that returned the shape sub
AfterResidual(x, block, sub) ==
    [shape |-> ResidualConnection(x.shape, sub), ops |-> Append(x.ops, block)]

\* the shape an attention block returns for a logged call
AttentionResult(tr, c) == AttentionBlock(tr, c.q.shape, c.k.shape, c.v.shape, c.mask)

DecoderStart ==
    /\ cpc = "layers"
    /\ \E dm \in 1..MaxDModel, hh \in 1..MaxHeads, n \in 1..MaxLayers :
          /\ Divisible(dm, hh)
          /\ decoder = [NoTransformer EXCEPT !.d_model = dm, !.h = hh, !.N = n,
                                             !.d_k = HeadDim(dm, hh), !.d_ff = 4 * dm]
    /\ \E b \in 1..MaxBatch, lt \in 1..MaxPositions, ls \in 1..MaxPositions :
          /\ dec_x = [shape |-> <<b, lt, decoder.d_model>>, ops |-> <<>>]
          /\ dec_encoder_output = [shape |-> <<b, ls, decoder.d_model>>,
                                   ops |-> <<"encoder">>]
          /\ dec_src_mask = <<b, 1, 1, ls>>
          /\ dec_tgt_mask = <<b, 1, lt, lt>>
    /\ layer = 0
    /\ dec_calls = <<>>
    /\ dec_result = NoValue

\* for layer in self.layers: the next block, or the end of the list
DC_Layer ==
    /\ cpc = "layers"
    /\ IF layer < decoder.N
         THEN /\ layer' = layer + 1
              /\ cpc' = "self_attention"
         ELSE /\ layer' = layer
              /\ cpc' = "norm"
    /\ UNCHANGED <<decoder, dec_x, dec_encoder_output, dec_src_mask, dec_tgt_mask,
                   dec_calls, dec_result>>
    /\ UNCHANGED nondecoder

\* x = self.residual_connections[0](x, lambda x: self.self_attention_block(...))
DC_SelfAttention ==
    /\ cpc = "self_attention"
    /\ LET c == SelfAttentionCall(layer, dec_x, dec_tgt_mask)
       IN  /\ dec_calls' = Append(dec_calls, c)
           /\ dec_x' = AfterResidual(dec_x, "self_attention", AttentionResult(decoder, c))
    /\ cpc' = "cross_attention"
    /\ UNCHANGED <<decoder, layer, dec_encoder_output, dec_src_mask, dec_tgt_mask,
                   dec_result>>
    /\ UNCHANGED nondecoder

\* x = self.residual_connections[1](x, lambda x: self.cross_attention_block(...))
DC_CrossAttention ==
    /\ cpc = "cross_attention"
    /\ LET c == CrossAttentionCall(layer, dec_x, dec_encoder_output, dec_src_mask)
       IN  /\ dec_calls' = Append(dec_calls, c)
           /\ dec_x' = AfterResidual(dec_x, "cross_attention", AttentionResult(decoder, c))
    /\ cpc' = "feed_forward"
    /\ UNCHANGED <<decoder, layer, dec_encoder_output, dec_src_mask, dec_tgt_mask,
                   dec_result>>
    /\ UNCHANGED nondecoder

\* x = self.residual_connections[2](x, self.feed_forward_block); return x
DC_FeedForward ==
    /\ cpc = "feed_forward"
    /\ LET c == FeedForwardCall(layer, dec_x)
       IN  /\ dec_calls' = Append(dec_calls, c)
           /\ dec_x' = AfterResidual(dec_x, "feed_forward",
                                     FeedForwardBlock(decoder, c.q.shape))
    /\ cpc' = "layers"
    /\ UNCHANGED <<decoder, layer, dec_encoder_output, dec_src_mask, dec_tgt_mask,
                   dec_result>>
    /\ UNCHANGED nondecoder

\* return self.norm(x)
DC_Norm ==
    /\ cpc = "norm"
    /\ dec_calls' = Append(dec_calls, Call(layer, -1, "norm", dec_x, NoValue, NoValue, <<>>))
    /\ dec_result' = Normed(dec_x)
    /\ cpc' = "return"
    /\ UNCHANGED <<decoder, layer, dec_x, dec_encoder_output, dec_src_mask, dec_tgt_mask>>
    /\ UNCHANGED nondecoder

DecoderNext ==
    \/ DC_Layer
    \/ DC_SelfAttention
    \/ DC_CrossAttention
    \/ DC_FeedForward
    \/ DC_Norm

DecoderInit ==
    /\ DecoderStart
    /\ GreedyIdle /\ DatasetIdle /\ MHAIdle /\ AttentionIdle
    /\ TransformerIdle /\ PositionalIdle /\ ResidualIdle /\ TrainIdle

DecoderSpec == DecoderInit /\ [][DecoderNext]_vars

(***************************************************************************)
(* Properties of greedy_decode.                                            *)
(***************************************************************************)
\* the positions of the calls log that hold a call of the given kind
CallsOf(kind) == { k \in 1..Len(calls) : calls[k][1] = kind }
NumDecodes == Cardinality(CallsOf("decode"))
NumProjects == Cardinality(CallsOf("project"))

\* the tokens the model predicted so far are all the end token
OnlyEosPredicted == \A k \in CallsOf("append") : calls[k][2] = eos_idx

\* C1: greedy_decode terminates for every max_len >= 1 whatever the model
\* predicts; it runs at most max_len - 1 decode/project iterations, and it leaves
\* the loop either at the end-token test, the last token being the end token, or
\* at the length test, the decoder input having max_len tokens.
C1_Terminates ==
    /\ [](NumDecodes <= max_len - 1 /\ NumProjects <= max_len - 1)
    /\ [](gpc = "done" =>
            \/ exit_via = "eos" /\ result[Len(result)] = eos_idx
            \/ exit_via = "max_len" /\ Len(result) = max_len)
    /\ <>(gpc = "done")

\* a run that used all of its max_len - 1 iterations and left at the length test
C1_Witness ==
    /\ gpc = "done"
    /\ exit_via = "max_len"
    /\ max_len >= 3
    /\ NumDecodes = max_len - 1

\* C2 as stated: for every max_len >= 1, a model that always predicts the end
\* token makes greedy_decode decode once and return [start, end], leaving at the
\* end-token test.
C2_Original ==
    (gpc = "done" /\ OnlyEosPredicted) =>
        /\ NumDecodes = 1
        /\ result = <<sos_idx, eos_idx>>
        /\ exit_via = "eos"

\* C2 amended: the same for every max_len >= 2 (with max_len = 1 the length test
\* leaves the loop before anything is decoded and [start] is returned).
C2_EosAtOnce ==
    (gpc = "done" /\ OnlyEosPredicted /\ max_len >= 2) =>
        /\ NumDecodes = 1
        /\ result = <<sos_idx, eos_idx>>
        /\ exit_via = "eos"

\* the end token was predicted at once, with room left for more tokens
C2_Witness ==
    /\ gpc = "done"
    /\ max_len >= 3
    /\ NumDecodes = 1
    /\ calls[Len(calls)] = <<"append", eos_idx>>

\* the calls of iteration m (m = 0, 1, ...) are calls[4m + 2 .. 4m + 5]; the decoder
\* input has m + 1 tokens when the iteration starts
IterationCalls(m) ==
    LET b == 4 * m + 1
        n == m + 1
    IN  /\ Len(calls) >= b + 1 => calls[b + 1] = <<"casual_mask", n>>
        /\ Len(calls) >= b + 2 =>
              /\ calls[b + 2][1] = "decode"
              /\ calls[b + 2][2] = calls[1][4]
              /\ calls[b + 2][3] = calls[1][3]
              /\ calls[b + 2][4] = SubSeq(decoder_input, 1, n)
              /\ calls[b + 2][5] = type_as_int(casual_mask(n))
        /\ Len(calls) >= b + 3 => calls[b + 3] = <<"project", n, n>>
        /\ Len(calls) >= b + 4 =>
              /\ calls[b + 4][1] = "append"
              /\ Len(decoder_input) >= n + 1
              /\ decoder_input[n + 1] = calls[b + 4][2]

\* C3: encode is called once, before anything else; then every iteration builds
\* the causal mask of the current decoder input length, calls decode with that
\* one encoder output and the source mask, projects the last position only and
\* appends one token, the arg-max, to the decoder input.
C3_CallOrder ==
    /\ Len(calls) >= 1 => calls[1] = <<"encode", source, source_mask, encoder_output>>
    /\ Cardinality(CallsOf("encode")) = (IF gpc = "encode" THEN 0 ELSE 1)
    /\ \A m \in 0..(Len(calls) \div 4) : IterationCalls(m)
    /\ gpc \notin {"encode", "init"} =>
          Len(decoder_input) = 1 + Cardinality(CallsOf("append"))
    /\ gpc = "eos" => calls[Len(calls)] = <<"append", next_word>>

\* two whole iterations were run
C3_Witness ==
    /\ gpc = "done"
    /\ Len(calls) >= 9
    /\ NumDecodes >= 2

\* C4: casual_mask(L) is a 1 x L x L boolean mask whose entry (i, j) is True
\* exactly when j <= i.
C4_CausalMask ==
    gpc = "type_as" =>
        LET L == calls[Len(calls)][2]
        IN  /\ calls[Len(calls)][1] = "casual_mask"
            /\ L >= 1
            /\ Len(causal) = 1
            /\ Len(causal[1]) = L
            /\ \A i \in 0..(L - 1) :
                  /\ Len(causal[1][i + 1]) = L
                  /\ \A j \in 0..(L - 1) : causal[1][i + 1][j + 1] = (j <= i)

\* a mask of three positions was built
C4_Witness ==
    /\ gpc = "type_as"
    /\ Len(causal[1]) = 3

(***************************************************************************)
(* Properties of BilingualDataset.__getitem__.                             *)
(***************************************************************************)
\* the 0-based positions the encoder mask hides
HiddenPositions == { j \in 0..(seq_len - 1) : item.encoder_mask[1][1][j + 1] = 0 }

\* C5: in a returned item the encoder mask is 0 at j exactly when
\* encoder_input[j] is the pad id; when none of the n source tokens is the pad
\* id the hidden positions are n + 2 .. seq_len - 1.
C5_EncoderMask ==
    dpc = "returned" =>
        /\ Len(item.encoder_mask) = 1
        /\ Len(item.encoder_mask[1]) = 1
        /\ Len(item.encoder_mask[1][1]) = seq_len
        /\ \A j \in 1..seq_len :
              (item.encoder_mask[1][1][j] = 0) <=> (item.encoder_input[j] = pad_token)
        /\ (\A k \in 1..Len(enc_input_tokens) : enc_input_tokens[k] # pad_token) =>
              HiddenPositions = (Len(enc_input_tokens) + 2)..(seq_len - 1)

\* an item with two padded positions and a source sentence free of the pad id
C5_Witness ==
    /\ dpc = "returned"
    /\ Len(enc_input_tokens) = 1
    /\ enc_input_tokens[1] # pad_token
    /\ seq_len = 5
    /\ HiddenPositions = {3, 4}

\* C7: __getitem__ raises ValueError exactly when the source needs more than
\* seq_len - 2 positions or the target more than seq_len - 1; a returned item holds
\* every token of both sentences, and nothing is returned when it raises.
C7_TooLong ==
    /\ dpc \in {"ValueError", "returned", "AssertionError"} =>
          ((dpc = "ValueError") <=>
              \/ Len(enc_input_tokens) + 2 > seq_len
              \/ Len(dec_input_tokens) + 1 > seq_len)
    /\ dpc = "returned" =>
          /\ SubSeq(item.encoder_input, 2, Len(enc_input_tokens) + 1) = enc_input_tokens
          /\ SubSeq(item.decoder_input, 2, Len(dec_input_tokens) + 1) = dec_input_tokens
          /\ SubSeq(item.label, 1, Len(dec_input_tokens)) = dec_input_tokens
    /\ dpc # "returned" => item = NoItem

\* the target alone is too long: the source fits, the target does not
C7_Witness ==
    /\ dpc = "ValueError"
    /\ Len(enc_input_tokens) + 2 <= seq_len
    /\ Len(dec_input_tokens) + 1 > seq_len
    /\ item = NoItem

(***************************************************************************)
(* Properties of MultiHeadAttentionBlock.                                  *)
(***************************************************************************)
\* C6: for d_model >= 1 and h >= 1 the construction succeeds exactly when
\* d_model % h = 0 and fails with the AssertionError otherwise; a constructed
\* block has d_k * h = d_model.
C6_Divisible ==
    /\ mpc # "init" =>
          /\ (mpc \in {"constructed", "forwarded"}) <=> (d_model % h = 0)
          /\ (mpc = "AssertionError") <=> (d_model % h # 0)
    /\ mpc \in {"constructed", "forwarded"} => d_k * h = d_model

\* a construction that failed: 5 is not divisible by 2
C6_Witness ==
    /\ mpc = "AssertionError"
    /\ d_model = 5
    /\ h = 2

\* C8: for d_model divisible by h, forward on q of (batch, Lq, d_model) and k, v
\* of (batch, Lk, d_model) returns (batch, Lq, d_model), also when Lk # Lq.
C8_ForwardShape ==
    mpc = "forwarded" =>
        /\ d_model % h = 0
        /\ q_shape[3] = d_model
        /\ k_shape = <<q_shape[1], k_shape[2], d_model>>
        /\ fwd_shape = q_shape

\* cross-attention with several heads: Lk differs from Lq
C8_Witness ==
    /\ mpc = "forwarded"
    /\ h >= 2
    /\ q_shape[2] # k_shape[2]
    /\ mask_shape = <<q_shape[1], 1, 1, k_shape[2]>>
    /\ fwd_shape = q_shape

(***************************************************************************)
(* Properties of MultiHeadAttentionBlock.attention.                        *)
(***************************************************************************)
\* the key positions of the row the mask leaves visible, and those it hides
Unmasked == { j \in 1..Len(attention_scores.num) : mask = <<>> \/ mask[j] # 0 }
Masked == (1..Len(attention_scores.num)) \ Unmasked

\* the sum of the returned weights over the visible keys, as a numerator
UnmaskedSum ==
    SumSeq([j \in 1..Len(attention_scores.num) |->
               IF j \in Unmasked THEN attention_scores.num[j] ELSE 0])

\* C9 as stated: for every call the returned weights of a query row sum to 1
\* over the unmasked keys and the weight of every masked key is 0.
C9_Original ==
    apc = "return" =>
        /\ UnmaskedSum = attention_scores.den
        /\ \A j \in Masked : attention_scores.num[j] = 0

\* C9 amended: in a query row with at least one unmasked key the weight of
\* every masked key is 0, and when moreover dropout is not applied (dropout is
\* None or the module is in eval mode) the weights sum to 1 over the unmasked
\* keys.
C9_Weights ==
    (apc = "return" /\ Unmasked # {}) =>
        /\ \A j \in Masked : attention_scores.num[j] = 0
        /\ dropout # "train" => UnmaskedSum = attention_scores.den

\* a row of three keys, one of them hidden, returned in eval mode
C9_Witness ==
    /\ apc = "return"
    /\ dropout = "eval"
    /\ Len(attention_scores.num) = 3
    /\ Cardinality(Masked) = 1
    /\ UnmaskedSum = attention_scores.den

C12_Residual ==
    /\ rpc = "return" =>
          /\ r_calls = <<[shape |-> r_x.shape, ops |-> <<"norm">>]>>
          /\ r_out.terms = << <<>>, <<"norm", "sublayer", "dropout">> >>
          /\ r_sublayer = "preserve" => r_out.shape = r_x.shape
    /\ rpc = "RuntimeError" => r_sublayer # "preserve"
    /\ Len(r_calls) <= 1

\* forward has returned for a shape-keeping sublayer in train mode
C12_Witness ==
    /\ rpc = "return"
    /\ r_sublayer = "preserve"
    /\ r_mode = "train"
    /\ r_x.shape = <<2, 3, 4>>
    /\ r_out.shape = <<2, 3, 4>>
    /\ Len(r_calls) = 1

(***************************************************************************)
(* Properties of train_model.                                              *)
(***************************************************************************)
\* train_model has just read the checkpoint config['preload'] names and is about
\* to enter the epoch loop
Resumed == npc = "epoch_loop" /\ epoch = -1 /\ config.preload # -1

\* C13 as stated: started with preload naming the checkpoint saved at the end of
\* epoch e, training continues at epoch e + 1 with the model parameters, the
\* optimizer state and the global step all equal to what the checkpoint holds.
C13_Original ==
    Resumed =>
        LET state == weights[config.preload]
        IN  /\ initial_epoch = config.preload + 1
            /\ parameters = state.model_state_dict
            /\ optimizer_state = state.optimizer_state_dict
            /\ global_step = state.global_step

\* a resumed run whose optimizer state and global step are the checkpoint's while
\* its parameters have none of the updates the checkpoint's parameters have
C13_Witness ==
    /\ Resumed
    /\ config.preload = 0
    /\ initial_epoch = 1
    /\ optimizer_state = weights[0].optimizer_state_dict
    /\ global_step = weights[0].global_step
    /\ weights[0].model_state_dict.updates # <<>>
    /\ parameters.updates = <<>>

\* the training batches this run has stepped on so far
StepsDone ==
    IF epoch = -1 THEN 0
    ELSE (epoch - initial_epoch) * train_dataloader
         + (IF npc \in {"train", "encode", "decode", "project", "loss", "backward", "step"}
              THEN batch - 1 ELSE batch)

\* the i-th training batch of this run, as <<epoch, batch>>
NthBatch(i) ==
    <<initial_epoch + ((i - 1) \div train_dataloader), ((i - 1) % train_dataloader) + 1>>

\* C19: every batch goes through encode, decode, project, loss, backward,
\* optimizer step, gradient reset in this order; .grad is zero from the start of
\* the forward pass up to backward and holds the batch's own gradient alone at
\* the step; the parameters have received one update per processed batch, each
\* the gradient of that batch alone.
C19_BatchOrder ==
    /\ Len(trace) <= Len(BatchOrder)
    /\ trace = SubSeq(BatchOrder, 1, Len(trace))
    /\ npc = "encode" => trace = <<>>
    /\ npc = "step" => trace = SubSeq(BatchOrder, 1, 5)
    /\ npc = "global_step" => trace = BatchOrder
    /\ npc \in {"train", "encode", "decode", "project", "loss", "backward"} => grads = <<>>
    /\ npc = "step" => grads = << <<epoch, batch>> >>
    /\ npc \notin {"idle", "start"} =>
          /\ Len(parameters.updates) = StepsDone
          /\ \A i \in 1..Len(parameters.updates) : parameters.updates[i] = <<NthBatch(i)>>

\* the last batch of the second epoch has been stepped on and its gradient reset
C19_Witness ==
    /\ npc = "global_step"
    /\ epoch = 1
    /\ batch = 2
    /\ train_dataloader = 2
    /\ trace = BatchOrder
    /\ grads = <<>>
    /\ Len(parameters.updates) = 4

\* the positions of run_validation, greedy_decode included
ValidationPositions ==
    {"validation", "val_loop", "greedy_decode", "in_greedy_decode", "val_print"}

\* C20: no step of run_validation or greedy_decode changes the parameters, the
\* optimizer state or global_step; greedy_decode leaves the source and
\* source_mask it was passed (the validation batch's tensors) as they are; the
\* parameters of a model change in optimizer.step() only.
C20_InferenceFrame ==
    [][/\ npc \in ValidationPositions =>
             UNCHANGED <<parameters, optimizer_state, global_step>>
       /\ gpc \notin {"idle", "done"} =>
             /\ UNCHANGED <<source, source_mask, encoder_input, encoder_mask>>
             /\ source = encoder_input
             /\ source_mask = encoder_mask
       /\ parameters' # parameters => npc \in {"step", "start", "done"}
       /\ (parameters' # parameters /\ npc \in {"start", "done"}) =>
             parameters'.updates = <<>>]_vars

\* greedy_decode is about to return a two-token output to run_validation, after
\* the parameters were trained on a batch
C20_Witness ==
    /\ npc = "in_greedy_decode"
    /\ gpc = "done"
    /\ mode = "eval"
    /\ Len(result) = 2
    /\ source = encoder_input
    /\ Len(parameters.updates) >= 1
    /\ global_step = Len(parameters.updates)

(***************************************************************************)
(* The loop invariant of greedy_decode.                                    *)
(***************************************************************************)
\* C14: from its initialisation on, the decoder input begins with the start
\* token, has between 1 and max_len tokens and holds the end token at most once,
\* as its last element; model.decode is only called with a decoder input of at
\* most max_len - 1 tokens; the returned sequence has at most max_len tokens.
C14_LoopInvariant ==
    /\ gpc \notin {"idle", "encode", "init"} =>
          /\ Len(decoder_input) \in 1..max_len
          /\ decoder_input[1] = sos_idx
          /\ \A i \in 1..(Len(decoder_input) - 1) : decoder_input[i] # eos_idx
    /\ \A k \in CallsOf("decode") : Len(calls[k][4]) <= max_len - 1
    /\ gpc = "done" =>
          /\ result = decoder_input
          /\ Len(result) <= max_len

\* the end token was appended as the third token, short of max_len
C14_Witness ==
    /\ gpc = "done"
    /\ max_len = 4
    /\ Len(result) = 3
    /\ result[1] = sos_idx
    /\ result[2] = pad_token
    /\ result[3] = eos_idx

(***************************************************************************)
(* Properties of the decoder side of a BilingualDataset item.              *)
(***************************************************************************)
\* C15: in a returned item the decoder mask, of shape (1, seq_len, seq_len),
\* allows query i to attend to key j exactly when j <= i and decoder_input[j]
\* is not the pad id.
C15_DecoderMask ==
    dpc = "returned" =>
        /\ Len(item.decoder_mask) = 1
        /\ Len(item.decoder_mask[1]) = seq_len
        /\ \A i \in 1..seq_len :
              /\ Len(item.decoder_mask[1][i]) = seq_len
              /\ \A j \in 1..seq_len :
                    (item.decoder_mask[1][i][j] = 1) <=>
                        (j <= i /\ item.decoder_input[j] # pad_token)
        /\ \A i \in 1..seq_len : \A j \in 1..seq_len :
              item.decoder_mask[1][i][j] \in {0, 1}

\* an item whose decoder mask hides a padded key the causal mask would allow,
\* and a future key that is not padding
C15_Witness ==
    /\ dpc = "returned"
    /\ seq_len = 4
    /\ Len(dec_input_tokens) = 2
    /\ dec_input_tokens[1] # pad_token
    /\ dec_input_tokens[2] # pad_token
    /\ item.decoder_mask[1][4] = <<1, 1, 1, 0>>
    /\ item.decoder_mask[1][1] = <<1, 0, 0, 0>>

\* __getitem__ has ended on an example neither sentence of which is too long
Accepted ==
    /\ dpc \in {"returned", "AssertionError", "ValueError"}
    /\ Len(enc_input_tokens) <= seq_len - 2
    /\ Len(dec_input_tokens) <= seq_len - 1

\* C16: for every accepted example, the boundary cases of seq_len - 2 source
\* tokens or seq_len - 1 target tokens included, encoder_input, decoder_input
\* and label have exactly seq_len elements and no length assertion fails.
C16_Lengths ==
    /\ dpc # "AssertionError"
    /\ Accepted => dpc = "returned"
    /\ dpc = "returned" =>
          /\ Len(item.encoder_input) = seq_len
          /\ Len(item.decoder_input) = seq_len
          /\ Len(item.label) = seq_len

\* both boundary cases at once: no pad token is added on either side
C16_Witness ==
    /\ dpc = "returned"
    /\ Len(enc_input_tokens) = seq_len - 2
    /\ Len(dec_input_tokens) = seq_len - 1
    /\ Len(dec_input_tokens) = 3
    /\ enc_num_padding_tokens = 0
    /\ dec_num_padding_tokens = 0
    /\ Len(item.label) = seq_len

\* C17: with m target tokens, decoder_input starts with the start token, label
\* is decoder_input shifted left by one over the m tokens, label[m] is the end
\* token, and both hold the pad id at every position after m (positions from 0).
C17_ShiftedLabel ==
    dpc = "returned" =>
        LET m == Len(dec_input_tokens)
        IN  /\ item.decoder_input[1] = sos_token
            /\ \A i \in 0..(m - 1) : item.label[i + 1] = item.decoder_input[i + 2]
            /\ item.label[m + 1] = eos_token
            /\ \A i \in (m + 1)..(seq_len - 1) :
                  /\ item.decoder_input[i + 1] = pad_token
                  /\ item.label[i + 1] = pad_token

\* two target tokens and two padded positions
C17_Witness ==
    /\ dpc = "returned"
    /\ seq_len = 5
    /\ dec_input_tokens = <<MaxTokenId, MaxTokenId>>
    /\ item.decoder_input = <<sos_token, MaxTokenId, MaxTokenId, pad_token, pad_token>>
    /\ item.label = <<MaxTokenId, MaxTokenId, eos_token, pad_token, pad_token>>

(***************************************************************************)
(* Properties of Decoder.forward.                                          *)
(***************************************************************************)
\* the blocks of one DecoderBlock, in the order of its residual connections
BlockNames == <<"self_attention", "cross_attention", "feed_forward">>

\* the blocks x has gone through before call number k of the log
BlocksBefore(k) == [i \in 1..(k - 1) |-> BlockNames[((i - 1) % 3) + 1]]

\* C18: call number k of the log is block (k - 1) % 3 of layer (k - 1) \div 3 + 1,
\* through the residual connection of the same number: self-attention with
\* query = key = value = the normalized state and the target mask, then
\* cross-attention with the normalized state as query, the encoder output as
\* key and value and the source mask, then feed-forward; every block is passed
\* the same encoder output and masks; the final norm is the one call after the
\* 3 N block calls, on the state the last block returned.
C18_DecoderOrder ==
    /\ Len(dec_calls) <= 3 * decoder.N + 1
    /\ \A k \in 1..Len(dec_calls) :
          LET c == dec_calls[k]
          IN  IF k <= 3 * decoder.N
                THEN /\ c.layer = ((k - 1) \div 3) + 1
                     /\ c.residual = (k - 1) % 3
                     /\ c.block = BlockNames[c.residual + 1]
                     /\ c.q.ops = Append(BlocksBefore(k), "norm")
                     /\ c.block = "self_attention" =>
                           c.k = c.q /\ c.v = c.q /\ c.mask = dec_tgt_mask
                     /\ c.block = "cross_attention" =>
                           /\ c.k = dec_encoder_output
                           /\ c.v = dec_encoder_output
                           /\ c.k.ops = <<"encoder">>
                           /\ c.mask = dec_src_mask
                ELSE /\ c.block = "norm"
                     /\ c.q.ops = BlocksBefore(k)
    /\ cpc = "return" =>
          /\ Len(dec_calls) = 3 * decoder.N + 1
          /\ dec_result.ops = Append(BlocksBefore(3 * decoder.N + 1), "norm")
          /\ dec_result.shape = dec_calls[1].q.shape

\* a decoder of two blocks has returned; source and target lengths differ
C18_Witness ==
    /\ cpc = "return"
    /\ decoder.N = 2
    /\ decoder.h = 2
    /\ Len(dec_calls) = 7
    /\ dec_calls[5].block = "cross_attention"
    /\ dec_calls[5].layer = 2
    /\ dec_encoder_output.shape[2] # dec_x.shape[2]
    /\ dec_result.shape = dec_x.shape


(***************************************************************************)
(* Properties of the masks of a BilingualDataset item, as attention sees   *)
(* them.                                                                   *)
(***************************************************************************)
\* the query rows of the two masks of the item: the one row of the encoder
\* mask, broadcast to every query, and the seq_len rows of the decoder mask
MaskRows == {item.encoder_mask[1][1]} \cup
            {item.decoder_mask[1][i] : i \in 1..Len(item.decoder_mask[1])}

\* the weights attention gives a query row of equal scores under the mask row r
RowWeights(r) ==
    Softmax(MaskedFill([num |-> [j \in 1..Len(r) |-> 0], den |-> 1], r))

\* C21: the start id differing from the pad id, in a returned item position 0
\* of encoder_input and of decoder_input is the start token, the encoder mask
\* allows key 0 and every row of the decoder mask allows key 0; so no query
\* row is all hidden, and attention gives every hidden key of a row the
\* weight 0 and the visible keys the whole sum.
C21_NoHiddenRow ==
    (dpc = "returned" /\ sos_token # pad_token) =>
        /\ item.encoder_input[1] = sos_token
        /\ item.decoder_input[1] = sos_token
        /\ item.encoder_mask[1][1][1] = 1
        /\ \A i \in 1..seq_len : item.decoder_mask[1][i][1] = 1
        /\ \A r \in MaskRows :
              /\ \E j \in 1..Len(r) : r[j] # 0
              /\ \A j \in 1..Len(r) : r[j] = 0 => RowWeights(r).num[j] = 0
              /\ SumSeq(RowWeights(r).num) = RowWeights(r).den
              /\ RowWeights(r).num[1] > 0

\* an item whose target sentence begins with the pad id: key 0 is the only
\* key the first three decoder rows see, and the encoder mask hides keys too
C21_Witness ==
    /\ dpc = "returned"
    /\ seq_len = 4
    /\ dec_input_tokens = <<pad_token, pad_token>>
    /\ enc_input_tokens = <<pad_token>>
    /\ item.decoder_mask[1][3] = <<1, 0, 0, 0>>
    /\ item.encoder_mask[1][1] = <<1, 0, 1, 0>>
    /\ RowWeights(item.decoder_mask[1][3]).num = <<1000, 0, 0, 0>>


(***************************************************************************)
(* Properties of global_step and of the checkpoints of train_model.        *)
(***************************************************************************)
\* the value global_step has when this run enters the epoch loop: 0, or the
\* global_step of the checkpoint config['preload'] names
StartStep == IF config.preload = -1 THEN 0 ELSE weights[config.preload].global_step

\* the training batches this run has gone through to the end of the loop body
BatchesDone ==
    IF epoch = -1 THEN 0
    ELSE (epoch - initial_epoch) * train_dataloader
         + (IF npc \in {"train", "encode", "decode", "project", "loss", "backward",
                        "step", "zero_grad", "global_step"}
              THEN batch - 1 ELSE batch)

\* the epochs of this run whose torch.save is behind
EpochsSaved ==
    IF epoch = -1 THEN 0
    ELSE epoch - initial_epoch + (IF npc \in {"epoch_loop", "done"} THEN 1 ELSE 0)

\* the positions of train_model from the epoch loop on
InEpochLoop == npc \notin {"idle", "start", "preload", "FileNotFoundError"}

\* C22: global_step is 0 when train_model starts, becomes the checkpoint's
\* saved value on resume, grows by exactly 1 per processed training batch and
\* changes nowhere else; every epoch of the run writes exactly one checkpoint,
\* after all of the epoch's batches and after its validation run, and the
\* checkpoint records the epoch's number and the global_step reached after
\* the epoch's last batch.
C22_GlobalStep ==
    /\ [](/\ npc \in {"start", "preload"} => global_step = 0
          /\ InEpochLoop =>
                /\ global_step = StartStep + BatchesDone
                /\ Len(saves) = EpochsSaved
                /\ \A i \in 1..Len(saves) :
                      LET e == initial_epoch + i - 1
                      IN  /\ saves[i] = Saved(e, StartStep + i * train_dataloader,
                                              train_dataloader, "eval")
                          /\ weights[e].epoch = e
                          /\ weights[e].global_step = saves[i].global_step
          /\ npc = "done" => Len(saves) = Max2(0, config.num_epochs - initial_epoch))
    /\ [][/\ global_step' # global_step =>
                \/ npc = "global_step" /\ global_step' = global_step + 1
                \/ npc = "preload" /\ global_step' = weights[config.preload].global_step
                \/ npc = "done" /\ npc' = "start" /\ global_step' = 0
          /\ (npc = "global_step" /\ npc' # npc) => global_step' = global_step + 1
          /\ weights' # weights =>
                /\ npc = "save"
                /\ batch = train_dataloader
                /\ mode = "eval"
                /\ weights'[epoch].epoch = epoch
                /\ weights'[epoch].global_step = global_step
                /\ \A e \in (DOMAIN weights) \ {epoch} : weights'[e] = weights[e]
          /\ saves' # saves =>
                \/ npc = "save" /\ weights' # weights /\ Len(saves') = Len(saves) + 1
                \/ npc = "done" /\ npc' = "start" /\ saves' = <<>>
          /\ (npc' = "save" /\ npc # "save") => npc \in {"val_loop", "val_print"}]_vars

\* a run resumed from the checkpoint of epoch 0 has finished: it wrote the one
\* checkpoint of epoch 1, after both batches and the validation run, with the
\* global step 2 of the checkpoint it read grown to 4
C22_Witness ==
    /\ npc = "done"
    /\ run = 2
    /\ config.preload = 0
    /\ config.num_epochs = 2
    /\ train_dataloader = 2
    /\ initial_epoch = 1
    /\ weights[0].global_step = 2
    /\ saves = <<Saved(1, 4, 2, "eval")>>
    /\ weights[1].global_step = 4
    /\ global_step = 4

====
